---- MODULE Spec2Model ----
(***************************************************************************)
(* A model of the portfolio analyzer (src/src/analyzers/                   *)
(* portfolio_analyzer.py): the price retrieval and alignment loop of       *)
(* fetch_historical_data, calculate_returns, the metric functions and      *)
(* generate_risk_report.  Spec runs them in the order                      *)
(* scripts/analyze_portfolio.py does.  SpecMetrics and SpecTail apply      *)
(* calculate_returns, calculate_max_drawdown and the tail metrics to every *)
(* price matrix, and every returns matrix, of a bounded set; SpecAnalysis  *)
(* calls every analysis function, with any of its arguments and in any     *)
(* order, on the returns of every aligned price matrix of a bounded set.   *)
(*                                                                         *)
(* Representation.  A nullable cell (Python None / NaN) is a sequence of   *)
(* length at most one: <<>> is null, <<v>> holds v.  A price is a positive *)
(* integer.  A return is an exact rational <<n, d>> in lowest terms with   *)
(* d > 0; floating point rounding is not modelled.  Square roots and       *)
(* logarithms are kept as symbols of their rational argument.  A date      *)
(* string 'YYYY-MM-DD' is the triple <<y, m, d>>; a datetime is the number *)
(* of days since 2024-01-01.  A DataFrame is a record [index, columns,     *)
(* data] with data[c][r] the cell of column c at row r; a Series is a      *)
(* record [index, data].                                                   *)
(***************************************************************************)
EXTENDS Integers, Sequences, FiniteSets, TLC

VARIABLES
    pc,             \* position in the analysis
    symbols,        \* fetch_historical_data: argument symbols
    start_date,     \* fetch_historical_data: argument start_date
    end_date,       \* fetch_historical_data: end_date, after the default is applied
    interval,       \* fetch_historical_data: argument interval
    dates,          \* fetch_historical_data: the generated date grid
    current,        \* fetch_historical_data: the datetime the date loop is at, as a day
    price_data,     \* fetch_historical_data: the columns of the symbols completed
    symbol_prices,  \* fetch_historical_data: the column being fetched
    calls,          \* the calls fetcher.fetch_price has received, with their outcome
    error,          \* the exception the running operation raised to its caller
    prices,         \* the price matrix
    return_type,    \* calculate_returns: argument return_type
    returns,        \* the returns matrix
    max_drawdown,   \* result of calculate_max_drawdown
    confidence_level, \* confidence level of the tail metrics, in percent
    var,            \* result of calculate_value_at_risk (historical)
    cvar,           \* result of calculate_conditional_var
    market_returns, \* the market series, or None: generate_risk_report's argument
    report,         \* result of generate_risk_report
    risk_free_rate, \* PortfolioAnalyzer.risk_free_rate, set by __init__
    call,           \* the function called last, with its arguments
    result,         \* what that call returned
    max_retries,    \* BaseFetcher.max_retries, set by __init__
    attempt,        \* the loop variable of the retry loop running
    attempts,       \* the attempts the running call has made, with their outcome
    slept,          \* the time.sleep calls the running call has made
    cache           \* CurrencyConverter._cache

vars == <<pc, symbols, start_date, end_date, interval, dates, current, price_data,
          symbol_prices, calls, error, prices, return_type, returns,
          max_drawdown, confidence_level, var, cvar, market_returns, report,
          risk_free_rate, call, result, max_retries, attempt, attempts, slept,
          cache>>

fetchVars == <<symbols, start_date, end_date, interval, dates, current, price_data,
               symbol_prices, calls>>

metricVars == <<return_type, returns, max_drawdown, var, cvar,
                market_returns, report>>

callVars == <<risk_free_rate, call, result>>

clientVars == <<max_retries, attempt, attempts, slept, cache>>

-----------------------------------------------------------------------------
(* Bounds and input sets *)

\* The longest date grid a modelled call generates.
MaxDates == 3

\* The symbol lists handed to fetch_historical_data.
SymbolLists == {<<"A">>, <<"A", "B">>}

\* The prices the fetcher returns.
FetchPrices == {50, 100}

\* The start dates handed to fetch_historical_data.
StartDates == {<<2024, 2, 27>>}

\* end_date - start_date, in days, of the calls modelled.
Spans == {-1, 0, 1, 2, 3, 7, 8, 14, 30, 31}

\* The intervals handed to fetch_historical_data; "hourly" is not recognized.
Intervals == {"daily", "weekly", "monthly", "hourly"}

-----------------------------------------------------------------------------
(* Nullable cells: None and NaN *)

Null == <<>>

IsNull(cell) == cell = Null

Some(v) == <<v>>

Value(cell) == cell[1]

\* The absent optional argument (end_date=None).
NoDate == <<>>

EmptyFrame == [index |-> <<>>, columns |-> <<>>, data |-> <<>>]

NoSeries == [index |-> <<>>, data |-> <<>>]

NoReport == [index |-> <<>>, columns |-> <<>>, data |-> <<>>]

\* No metric function has been called, and none has returned.
NoCall == [fn |-> "none"]

NoResult == [none |-> TRUE]

\* BaseFetcher.__init__: max_retries = 3
DefaultMaxRetries == 3

\* No fetcher or converter call is running and nothing is cached.
ClientIdle ==
    /\ max_retries = DefaultMaxRetries
    /\ attempt = 0
    /\ attempts = <<>>
    /\ slept = <<>>
    /\ cache = <<>>

-----------------------------------------------------------------------------
(* Dates: datetime.strptime(s, '%Y-%m-%d'), strftime and timedelta *)

IsLeap(y) == (y % 4 = 0 /\ y % 100 # 0) \/ y % 400 = 0

DaysInYear(y) == IF IsLeap(y) THEN 366 ELSE 365

DaysInMonth(y, m) ==
    IF m = 2 THEN (IF IsLeap(y) THEN 29 ELSE 28)
    ELSE IF m \in {4, 6, 9, 11} THEN 30 ELSE 31

\* The leap years among the years 1 .. y - 1.
LeapsBefore(y) == (y - 1) \div 4 - (y - 1) \div 100 + (y - 1) \div 400

\* The days from 2024-01-01 to the first day of the year y >= 2024.
DaysBeforeYear(y) ==
    IF y <= 2024 THEN 0 ELSE 365 * (y - 2024) + LeapsBefore(y) - LeapsBefore(2024)

RECURSIVE DaysBeforeMonth(_, _)
DaysBeforeMonth(y, m) ==
    IF m <= 1 THEN 0 ELSE DaysBeforeMonth(y, m - 1) + DaysInMonth(y, m - 1)

\* datetime.strptime: the date string as a day count.
Strptime(s) == DaysBeforeYear(s[1]) + DaysBeforeMonth(s[1], s[2]) + s[3] - 1

RECURSIVE YearOf(_, _)
YearOf(n, y) == IF n < DaysInYear(y) THEN <<y, n>> ELSE YearOf(n - DaysInYear(y), y + 1)

RECURSIVE MonthOf(_, _, _)
MonthOf(n, y, m) ==
    IF n < DaysInMonth(y, m) THEN <<m, n>> ELSE MonthOf(n - DaysInMonth(y, m), y, m + 1)

\* datetime.strftime('%Y-%m-%d'): the day count as a date string.
Strftime(n) ==
    LET from == 2024 + n \div 366
        yr   == YearOf(n - DaysBeforeYear(from), from)
        mo   == MonthOf(yr[2], yr[1], 1)
    IN  <<yr[1], mo[1], mo[2] + 1>>

\* datetime.max, as a day: 9999-12-31.
MaxDatetime == Strptime(<<9999, 12, 31>>)

\* The end dates handed to fetch_historical_data, and the values of now().
EndDates == {Strftime(Strptime(s) + k) : s \in StartDates, k \in Spans}

-----------------------------------------------------------------------------
(* fetch_historical_data *)

\* An interval check whose else branch falls through to a default step.
ValidIntervalAny(i) == TRUE

ValidInterval(i) == i \in {"daily", "weekly", "monthly"}

\* timedelta chosen for the interval, in days.
Delta(i) ==
    IF i = "daily" THEN 1
    ELSE IF i = "weekly" THEN 7
    ELSE 30

\* A date loop that stops before the end date: while current < end.
RECURSIVE DateRangeExclusive(_, _, _)
DateRangeExclusive(cur, end, delta) ==
    IF cur < end
    THEN <<Strftime(cur)>> \o DateRangeExclusive(cur + delta, end, delta)
    ELSE <<>>

\* while current <= end: dates.append(current.strftime(...)); current += delta
RECURSIVE DateRange(_, _, _)
DateRange(cur, end, delta) ==
    IF cur <= end
    THEN <<Strftime(cur)>> \o DateRange(cur + delta, end, delta)
    ELSE <<>>

\* Number of dates the loop generates; used only to bound the model.
GridLen(s, e, i) ==
    IF Strptime(e) < Strptime(s) THEN 0
    ELSE (Strptime(e) - Strptime(s)) \div Delta(i) + 1

\* end_date after "if end_date is None: end_date = now().strftime(...)".
EndDateOrToday(e, now) == IF e = NoDate THEN now ELSE e

\* The call fetch_historical_data(fetcher, syms, s, e, i), up to the first fetch.
FetchHistoricalData(syms, s, e, i, now) ==
    /\ pc = "idle"
    /\ LET end == EndDateOrToday(e, now)
       IN  /\ symbols' = syms
           /\ start_date' = s
           /\ end_date' = end
           /\ interval' = i
           /\ IF ValidInterval(i)
              THEN /\ GridLen(s, end, i) <= MaxDates
                   /\ dates' = DateRange(Strptime(s), Strptime(end), Delta(i))
                   /\ current' = Strptime(s) + GridLen(s, end, i) * Delta(i)
                   /\ pc' = "fetching"
                   /\ error' = "none"
              ELSE /\ dates' = <<>>
                   /\ current' = current
                   /\ pc' = "raised"
                   /\ error' = "ValueError"
    /\ price_data' = <<>>
    /\ symbol_prices' = <<>>
    /\ calls' = <<>>
    /\ UNCHANGED <<prices, confidence_level>>
    /\ UNCHANGED metricVars
    /\ UNCHANGED callVars
    /\ UNCHANGED clientVars

\* The symbol and date of the next fetcher.fetch_price call.
CurrentSymbol == symbols[Len(price_data) + 1]

CurrentDate == dates[Len(symbol_prices) + 1]

InDateLoop ==
    /\ pc = "fetching"
    /\ Len(price_data) < Len(symbols)
    /\ Len(symbol_prices) < Len(dates)

\* What the try/except around fetcher.fetch_price appends to symbol_prices:
\* result.get('price'), or None in the except clause.
Fetched(outcome, price) == IF outcome = "raised" THEN Null ELSE price

\* A fetch loop that leaves a failed point for another attempt.
RecordedUnlessRaised(column, outcome, price) ==
    IF outcome = "raised" THEN column ELSE Append(column, Fetched(outcome, price))

Recorded(column, outcome, price) == Append(column, Fetched(outcome, price))

\* Where control goes after one fetch: "except Exception" catches what
\* fetch_price raises, so the loop goes on.
\* A fetch loop without the try/except.
AfterFetchPointUncaught(outcome) == IF outcome = "raised" THEN "raised" ELSE "fetching"

AfterFetchPoint(outcome) == "fetching"

\* One pass of "for date in dates": fetch_price returns a dict holding `price`
\* (a number, or None) or raises.
FetchPoint(outcome, price) ==
    /\ InDateLoop
    /\ calls' = Append(calls, [symbol |-> CurrentSymbol, date |-> CurrentDate,
                               outcome |-> outcome, price |-> price])
    /\ symbol_prices' = Recorded(symbol_prices, outcome, price)
    /\ pc' = AfterFetchPoint(outcome)
    /\ UNCHANGED <<symbols, start_date, end_date, interval, dates, current,
                   price_data, error, prices, confidence_level>>
    /\ UNCHANGED metricVars
    /\ UNCHANGED callVars
    /\ UNCHANGED clientVars

FetchPriceReturns == \E p \in FetchPrices : FetchPoint("returned", Some(p))

FetchPriceReturnsNone == FetchPoint("returned", Null)

FetchPriceRaises == FetchPoint("raised", Null)

\* price_data[symbol] = symbol_prices, and the next symbol's empty list.
StoreSymbol ==
    /\ pc = "fetching"
    /\ Len(price_data) < Len(symbols)
    /\ Len(symbol_prices) = Len(dates)
    /\ price_data' = Append(price_data, symbol_prices)
    /\ symbol_prices' = <<>>
    /\ UNCHANGED <<pc, symbols, start_date, end_date, interval, dates, current, calls,
                   error, prices, confidence_level>>
    /\ UNCHANGED metricVars
    /\ UNCHANGED callVars
    /\ UNCHANGED clientVars

\* pd.DataFrame(price_data, index=pd.to_datetime(dates))
DataFrame(data, index, columns) ==
    [index |-> index, columns |-> columns, data |-> data]

\* Series.ffill: each null takes the last non-null value above it.
RECURSIVE FfillFrom(_, _, _)
FfillFrom(col, i, last) ==
    IF i > Len(col) THEN <<>>
    ELSE LET v == IF IsNull(col[i]) THEN last ELSE col[i]
         IN  <<v>> \o FfillFrom(col, i + 1, v)

FfillColumn(col) == FfillFrom(col, 1, Null)

\* Series.bfill: each null takes the first non-null value below it.
RECURSIVE BfillFrom(_, _, _)
BfillFrom(col, i, next) ==
    IF i < 1 THEN <<>>
    ELSE LET v == IF IsNull(col[i]) THEN next ELSE col[i]
         IN  BfillFrom(col, i - 1, v) \o <<v>>

\* An alignment that never fills backward.
BfillColumnSkipped(col) == col

BfillColumn(col) == BfillFrom(col, Len(col), Null)

Ffill(df) == [df EXCEPT !.data = [c \in DOMAIN df.data |-> FfillColumn(df.data[c])]]

Bfill(df) == [df EXCEPT !.data = [c \in DOMAIN df.data |-> BfillColumn(df.data[c])]]

\* An alignment that fills backward first.
AlignedFrameBackwardFirst(df) == Ffill(Bfill(df))

\* df = df.ffill(); df = df.bfill()
AlignedFrame(df) == Bfill(Ffill(df))

\* df = DataFrame(...); df = df.ffill(); df = df.bfill(); return df
BuildFrame ==
    /\ pc = "fetching"
    /\ Len(price_data) = Len(symbols)
    /\ prices' = AlignedFrame(DataFrame(price_data, dates, symbols))
    /\ pc' = "fetched"
    /\ UNCHANGED <<confidence_level, error>>
    /\ UNCHANGED fetchVars
    /\ UNCHANGED metricVars
    /\ UNCHANGED callVars
    /\ UNCHANGED clientVars

\* return prices: the caller has the matrix, and the arguments and locals of
\* the call, with the record of its fetches, are gone.
ReturnPrices ==
    /\ pc = "fetched"
    /\ pc' = "prices"
    /\ symbols' = <<>>
    /\ start_date' = NoDate
    /\ end_date' = NoDate
    /\ interval' = "daily"
    /\ dates' = <<>>
    /\ current' = 0
    /\ price_data' = <<>>
    /\ symbol_prices' = <<>>
    /\ calls' = <<>>
    /\ UNCHANGED <<prices, confidence_level, error>>
    /\ UNCHANGED metricVars
    /\ UNCHANGED callVars
    /\ UNCHANGED clientVars

-----------------------------------------------------------------------------
(* Exact rational arithmetic: <<n, d>> with d > 0, in lowest terms *)

Abs(x) == IF x < 0 THEN -x ELSE x

RECURSIVE GCD(_, _)
GCD(a, b) == IF b = 0 THEN a ELSE GCD(b, a % b)

RNorm(n, d) ==
    LET g == GCD(Abs(n), Abs(d))
        s == IF d < 0 THEN -1 ELSE 1
    IN  <<(s * n) \div g, (s * d) \div g>>

RInt(k) == <<k, 1>>

RAdd(a, b) == RNorm(a[1] * b[2] + b[1] * a[2], a[2] * b[2])

RSub(a, b) == RNorm(a[1] * b[2] - b[1] * a[2], a[2] * b[2])

RMul(a, b) == RNorm(a[1] * b[1], a[2] * b[2])

RDiv(a, b) == RNorm(a[1] * b[2], a[2] * b[1])

RLe(a, b) == a[1] * b[2] <= b[1] * a[2]

\* risk_free_rate: float = 0.04, the default of __init__ and of the script.
DefaultRate == RNorm(4, 100)

\* Sequences as pandas uses them
SeqMap(Op(_), s) == [i \in DOMAIN s |-> Op(s[i])]

RECURSIVE SelectRows(_, _, _)
SelectRows(s, keep, i) ==
    IF i > Len(s) THEN <<>>
    ELSE (IF keep[i] THEN <<s[i]>> ELSE <<>>) \o SelectRows(s, keep, i + 1)

\* The non-null values of a column, in row order (skipna).
RECURSIVE NonNull(_)
NonNull(col) ==
    IF col = <<>> THEN <<>>
    ELSE (IF IsNull(Head(col)) THEN <<>> ELSE <<Value(Head(col))>>) \o NonNull(Tail(col))

NRows(df) == Len(df.index)

-----------------------------------------------------------------------------
(* calculate_returns *)

\* The symbolic value ln(q) of a logarithm np.log does not make rational.
Ln(q) == [ln |-> q]

\* prices.pct_change(): price[t] / price[t-1] - 1, null in the first row.
\* (pct_change may pad interior nulls first; an aligned matrix has none, a
\* column is priced throughout or null throughout, and padding changes
\* neither.)
PctChangeColumn(col) ==
    [t \in DOMAIN col |->
        IF t = 1 \/ IsNull(col[t]) \/ IsNull(col[t - 1]) THEN Null
        ELSE Some(RSub(RDiv(RInt(Value(col[t])), RInt(Value(col[t - 1]))), RInt(1)))]

\* np.log(prices / prices.shift(1)): ln(price[t] / price[t-1]), null in the first row.
LogRatioColumn(col) ==
    [t \in DOMAIN col |->
        IF t = 1 \/ IsNull(col[t]) \/ IsNull(col[t - 1]) THEN Null
        ELSE Some(Ln(RDiv(RInt(Value(col[t])), RInt(Value(col[t - 1])))))]

\* DataFrame.dropna(): the rows in which no cell is null.
CompleteRow(df, r) == \A c \in DOMAIN df.data : ~IsNull(df.data[c][r])

Dropna(df) ==
    LET keep == [r \in 1..NRows(df) |-> CompleteRow(df, r)]
    IN  [index   |-> SelectRows(df.index, keep, 1),
         columns |-> df.columns,
         data    |-> [c \in DOMAIN df.data |-> SelectRows(df.data[c], keep, 1)]]

ReturnsOf(p, rt) ==
    Dropna([p EXCEPT !.data =
        [c \in DOMAIN p.data |->
            IF rt = "simple" THEN PctChangeColumn(p.data[c])
            ELSE LogRatioColumn(p.data[c])]])

ValidReturnType(rt) == rt \in {"simple", "log"}

\* A column built from None alone has dtype object: pd.DataFrame infers a
\* float column from a list that holds a number, and none from a list of
\* None, and ffill and bfill leave it so.
ObjectColumn(col) ==
    /\ Len(col) >= 1
    /\ \A t \in DOMAIN col : IsNull(col[t])

\* np.log(prices / prices.shift(1)): the quotient of an object column is an
\* object column of NaN, and np.log of an object column raises TypeError
\* (a float has no log method).  pct_change has no such step.
LogRaises(p) == \E c \in DOMAIN p.data : ObjectColumn(p.data[c])

\* returns = analyzer.calculate_returns(prices, return_type=rt)
CalculateReturns(rt) ==
    /\ pc = "prices"
    /\ return_type' = rt
    /\ IF ~ValidReturnType(rt)
       THEN /\ returns' = returns
            /\ pc' = "raised"
            /\ error' = "ValueError"
       ELSE IF rt = "log" /\ LogRaises(prices)
       THEN /\ returns' = returns
            /\ pc' = "raised"
            /\ error' = "TypeError"
       ELSE /\ returns' = ReturnsOf(prices, rt)
            /\ pc' = "returns"
            /\ error' = "none"
    /\ UNCHANGED <<prices, confidence_level, max_drawdown, var, cvar,
                   market_returns, report>>
    /\ UNCHANGED fetchVars
    /\ UNCHANGED callVars
    /\ UNCHANGED clientVars

-----------------------------------------------------------------------------
(* calculate_max_drawdown *)

\* prices.cummax(): the running maximum; a null cell stays null and is skipped.
RECURSIVE CummaxFrom(_, _, _)
CummaxFrom(col, i, best) ==
    IF i > Len(col) THEN <<>>
    ELSE IF IsNull(col[i]) THEN <<Null>> \o CummaxFrom(col, i + 1, best)
    ELSE LET m == IF IsNull(best) \/ Value(col[i]) > Value(best) THEN col[i] ELSE best
         IN  <<m>> \o CummaxFrom(col, i + 1, m)

\* The maximum of the whole column in every row: prices.max() for cummax().
CummaxWholeColumn(col) ==
    LET top == CummaxFrom(col, 1, Null)
    IN  [t \in DOMAIN col |-> IF IsNull(col[t]) THEN Null ELSE top[Len(col)]]

Cummax(col) == CummaxFrom(col, 1, Null)

\* (prices - cumulative_max) / cumulative_max
DrawdownColumn(col) ==
    LET cumulative_max == Cummax(col)
    IN  [t \in DOMAIN col |->
            IF IsNull(col[t]) THEN Null
            ELSE Some(RDiv(RInt(Value(col[t]) - Value(cumulative_max[t])),
                           RInt(Value(cumulative_max[t]))))]

\* Series.min(): the least of the non-null values, null when there is none.
RECURSIVE MinOf(_)
MinOf(vals) ==
    IF vals = <<>> THEN Null
    ELSE LET rest == MinOf(Tail(vals))
         IN  IF IsNull(rest) \/ RLe(Head(vals), Value(rest)) THEN Some(Head(vals))
             ELSE rest

ColumnMin(col) == MinOf(NonNull(col))

MaxDrawdownOf(p) ==
    [index |-> p.columns,
     data  |-> [c \in DOMAIN p.data |-> ColumnMin(DrawdownColumn(p.data[c]))]]

\* max_drawdown = analyzer.calculate_max_drawdown(prices)
CalculateMaxDrawdown ==
    /\ pc = "returns"
    /\ max_drawdown' = MaxDrawdownOf(prices)
    /\ pc' = "drawdown"
    /\ UNCHANGED <<prices, confidence_level, error, return_type, returns, var,
                   cvar, market_returns, report>>
    /\ UNCHANGED fetchVars
    /\ UNCHANGED callVars
    /\ UNCHANGED clientVars

-----------------------------------------------------------------------------
(* calculate_value_at_risk (historical) and calculate_conditional_var *)

\* The values in ascending order.
RECURSIVE Insert(_, _)
Insert(v, sorted) ==
    IF sorted = <<>> THEN <<v>>
    ELSE IF RLe(v, Head(sorted)) THEN <<v>> \o sorted
    ELSE <<Head(sorted)>> \o Insert(v, Tail(sorted))

RECURSIVE Sort(_)
Sort(vals) == IF vals = <<>> THEN <<>> ELSE Insert(Head(vals), Sort(Tail(vals)))

\* 1 - confidence_level, with the confidence level in percent.
TailProbability(c) == RNorm(100 - c, 100)

\* Series.quantile(q), linear interpolation: with the n non-null values
\* sorted and h = (n - 1) * q, the value at position h, interpolated
\* between the neighbours of h; null when the column has no value.
Quantile(col, q) ==
    LET x  == Sort(NonNull(col))
        n  == Len(x)
        hn == (n - 1) * q[1]
        lo == hn \div q[2]
        fr == RNorm(hn % q[2], q[2])
    IN  IF n = 0 THEN Null
        ELSE IF lo + 2 > n THEN Some(x[lo + 1])
        ELSE Some(RAdd(x[lo + 1], RMul(RSub(x[lo + 2], x[lo + 1]), fr)))

\* returns.quantile(1 - confidence_level)
ValueAtRiskOf(r, c) ==
    [index |-> r.columns,
     data  |-> [s \in DOMAIN r.data |-> Quantile(r.data[s], TailProbability(c))]]

RECURSIVE RSum(_)
RSum(vals) == IF vals = <<>> THEN RInt(0) ELSE RAdd(Head(vals), RSum(Tail(vals)))

\* Series.mean(): the mean of the non-null values, null when there is none.
Mean(col) ==
    LET vals == NonNull(col)
    IN  IF vals = <<>> THEN Null ELSE Some(RDiv(RSum(vals), RInt(Len(vals))))

\* The returns at or above the threshold: >= for <=.
TailReturnsAbove(col, threshold) ==
    LET keep == [t \in DOMAIN col |->
                    /\ ~IsNull(threshold)
                    /\ ~IsNull(col[t])
                    /\ RLe(Value(threshold), Value(col[t]))]
    IN  SelectRows(col, keep, 1)

\* The returns strictly below the threshold: < for <=.
TailReturnsBelow(col, threshold) ==
    LET keep == [t \in DOMAIN col |->
                    /\ ~IsNull(threshold)
                    /\ ~IsNull(col[t])
                    /\ RLe(Value(col[t]), Value(threshold))
                    /\ Value(col[t]) # Value(threshold)]
    IN  SelectRows(col, keep, 1)

\* symbol_returns[symbol_returns <= var_threshold[symbol]]: a comparison
\* with a null threshold, or of a null cell, is false.
TailReturns(col, threshold) ==
    LET keep == [t \in DOMAIN col |->
                    /\ ~IsNull(threshold)
                    /\ ~IsNull(col[t])
                    /\ RLe(Value(col[t]), Value(threshold))]
    IN  SelectRows(col, keep, 1)

\* cvar[symbol] = tail_returns.mean() if len(tail_returns) > 0 else var_threshold[symbol]
ConditionalVarColumn(col, c) ==
    LET var_threshold == Quantile(col, TailProbability(c))
        tail_returns  == TailReturns(col, var_threshold)
    IN  IF Len(tail_returns) > 0 THEN Mean(tail_returns) ELSE var_threshold

ConditionalVarOf(r, c) ==
    [index |-> r.columns,
     data  |-> [s \in DOMAIN r.data |-> ConditionalVarColumn(r.data[s], c)]]

\* var = analyzer.calculate_value_at_risk(returns, confidence_level)
CalculateValueAtRisk ==
    /\ pc = "drawdown"
    /\ var' = ValueAtRiskOf(returns, confidence_level)
    /\ pc' = "var"
    /\ UNCHANGED <<prices, confidence_level, error, return_type, returns,
                   max_drawdown, cvar, market_returns, report>>
    /\ UNCHANGED fetchVars
    /\ UNCHANGED callVars
    /\ UNCHANGED clientVars

\* cvar = analyzer.calculate_conditional_var(returns, confidence_level)
CalculateConditionalVar ==
    /\ pc = "var"
    /\ cvar' = ConditionalVarOf(returns, confidence_level)
    /\ pc' = "cvar"
    /\ UNCHANGED <<prices, confidence_level, error, return_type, returns,
                   max_drawdown, var, market_returns, report>>
    /\ UNCHANGED fetchVars
    /\ UNCHANGED callVars
    /\ UNCHANGED clientVars

-----------------------------------------------------------------------------
(* Float arithmetic on nullable cells.  NaN is the null cell; an infinite   *)
(* float is the rational of denominator 0: <<1, 0>> and <<-1, 0>>.  The     *)
(* square root of a rational is kept as the symbol [sqrt |-> q], and a      *)
(* quotient by a square root as [num |-> a, root |-> q] for a / sqrt(q).    *)

\* An operation on two cells is NaN when either is.
CellAdd(a, b) ==
    IF IsNull(a) \/ IsNull(b) THEN Null ELSE Some(RAdd(Value(a), Value(b)))

CellSub(a, b) ==
    IF IsNull(a) \/ IsNull(b) THEN Null ELSE Some(RSub(Value(a), Value(b)))

CellMul(a, b) ==
    IF IsNull(a) \/ IsNull(b) THEN Null ELSE Some(RMul(Value(a), Value(b)))

\* cell * k, for an integer k.
Times(a, k) == CellMul(a, Some(RInt(k)))

Sign(q) == IF q[1] > 0 THEN 1 ELSE IF q[1] < 0 THEN -1 ELSE 0

\* a / b as numpy divides floats: x / 0 is infinite with the sign of x,
\* 0 / 0 is NaN, and nothing is raised.
FloatDiv(a, b) ==
    IF IsNull(a) \/ IsNull(b) THEN Null
    ELSE IF Value(b)[1] # 0 THEN Some(RDiv(Value(a), Value(b)))
    ELSE IF Value(a)[1] = 0 THEN Null
    ELSE Some(<<Sign(Value(a)), 0>>)

\* np.sqrt of a cell.
Sqrt(a) == IF IsNull(a) THEN Null ELSE Some([sqrt |-> Value(a)])

\* A quotient guarded against a zero divisor: 0 when q = 0.
OverRootOrZero(a, q) ==
    IF IsNull(a) \/ IsNull(q) THEN Null
    ELSE IF Value(q)[1] # 0 THEN Some([num |-> Value(a), root |-> Value(q)])
    ELSE Some([num |-> RInt(0), root |-> RInt(1)])

\* a / sqrt(q): infinite with the sign of a when q = 0, NaN for 0 / 0.
OverRoot(a, q) ==
    IF IsNull(a) \/ IsNull(q) THEN Null
    ELSE IF Value(q)[1] # 0 THEN Some([num |-> Value(a), root |-> Value(q)])
    ELSE IF Value(a)[1] = 0 THEN Null
    ELSE Some([num |-> RInt(Sign(Value(a))), root |-> RInt(0)])

IsInfinite(cell) ==
    /\ ~IsNull(cell)
    /\ Value(cell).root = RInt(0)

\* The column named sym of a DataFrame.
ColumnOf(df, sym) ==
    df.data[CHOOSE c \in DOMAIN df.columns : df.columns[c] = sym]

HasColumn(df, sym) == \E c \in DOMAIN df.columns : df.columns[c] = sym

-----------------------------------------------------------------------------
(* calculate_volatility and calculate_variance *)

\* Series.var(): sum((x - mean)^2) / (n - 1) over the n non-null values,
\* NaN when n < 2.
Variance(col) ==
    LET vals == NonNull(col)
        n    == Len(vals)
        mean == RDiv(RSum(vals), RInt(n))
        sq   == [t \in DOMAIN vals |->
                    RMul(RSub(vals[t], mean), RSub(vals[t], mean))]
    IN  IF n < 2 THEN Null ELSE Some(RDiv(RSum(sq), RInt(n - 1)))

\* returns.std() * np.sqrt(trading_days), as the root of var * trading_days.
AnnualStd(col, trading_days) == Times(Variance(col), trading_days)

\* volatility = returns.std(); if annualize: volatility * np.sqrt(trading_days)
VolatilityOf(r, annualize, trading_days) ==
    [index |-> r.columns,
     data  |-> [c \in DOMAIN r.data |->
                  Sqrt(IF annualize THEN AnnualStd(r.data[c], trading_days)
                       ELSE Variance(r.data[c]))]]

\* variance = returns.var(); if annualize: variance * trading_days
VarianceOf(r, annualize, trading_days) ==
    [index |-> r.columns,
     data  |-> [c \in DOMAIN r.data |->
                  IF annualize THEN Times(Variance(r.data[c]), trading_days)
                  ELSE Variance(r.data[c])]]

-----------------------------------------------------------------------------
(* calculate_sharpe_ratio and calculate_sortino_ratio *)

\* The optional arguments risk_free_rate=None and symbol=None.
NoRate == <<>>

NoSymbol == <<>>

\* The rate used whenever the argument is zero or None: "if not risk_free_rate".
EffectiveRateIfFalsy(arg, configured) ==
    IF arg = NoRate \/ arg = Some(RInt(0)) THEN configured ELSE Value(arg)

\* if risk_free_rate is None: risk_free_rate = self.risk_free_rate
EffectiveRate(arg, configured) ==
    IF arg = NoRate THEN configured ELSE Value(arg)

\* returns.mean() * trading_days
AnnualMean(col, trading_days) == Times(Mean(col), trading_days)

\* (mean_return - risk_free_rate) / volatility
SharpeRatioOf(r, rate, trading_days) ==
    [index |-> r.columns,
     data  |-> [c \in DOMAIN r.data |->
                  OverRoot(CellSub(AnnualMean(r.data[c], trading_days), Some(rate)),
                           AnnualStd(r.data[c], trading_days))]]

\* downside_returns[downside_returns > 0] = 0
Clamp(col) ==
    [t \in DOMAIN col |->
        IF ~IsNull(col[t]) /\ Value(col[t])[1] > 0 THEN Some(RInt(0)) ELSE col[t]]

ClampFrame(r) == [r EXCEPT !.data = [c \in DOMAIN r.data |-> Clamp(r.data[c])]]

\* (mean_return - risk_free_rate) / downside_deviation
SortinoRatioOf(r, rate, trading_days) ==
    LET downside_returns == ClampFrame(r)
    IN  [index |-> r.columns,
         data  |-> [c \in DOMAIN r.data |->
                      OverRoot(CellSub(AnnualMean(r.data[c], trading_days), Some(rate)),
                               AnnualStd(downside_returns.data[c], trading_days))]]

-----------------------------------------------------------------------------
(* Covariance and correlation *)

\* The pairs <<x, y>> of two series at the dates both have a value for:
\* pandas aligns two series on their index and leaves out the rows in
\* which either is missing.
RECURSIVE PairsFrom(_, _, _, _, _)
PairsFrom(ix, x, iy, y, t) ==
    IF t > Len(ix) THEN <<>>
    ELSE LET at == {u \in DOMAIN iy : iy[u] = ix[t]}
             u  == CHOOSE v \in at : TRUE
         IN  (IF at # {} /\ ~IsNull(x[t]) /\ ~IsNull(y[u])
              THEN <<<<Value(x[t]), Value(y[u])>>>> ELSE <<>>)
             \o PairsFrom(ix, x, iy, y, t + 1)

AlignedPairs(ix, x, iy, y) == PairsFrom(ix, x, iy, y, 1)

Firsts(pairs) == [t \in DOMAIN pairs |-> Some(pairs[t][1])]

Seconds(pairs) == [t \in DOMAIN pairs |-> Some(pairs[t][2])]

\* Series.cov(): sum((x - mean x)(y - mean y)) / (n - 1) over the n
\* pairs, NaN when n < 2.
Covariance(pairs) ==
    LET n  == Len(pairs)
        mx == Value(Mean(Firsts(pairs)))
        my == Value(Mean(Seconds(pairs)))
        pr == [t \in DOMAIN pairs |->
                  RMul(RSub(pairs[t][1], mx), RSub(pairs[t][2], my))]
    IN  IF n < 2 THEN Null ELSE Some(RDiv(RSum(pr), RInt(n - 1)))

\* Series.corr(method='pearson'): cov / (std x * std y) over the pairs.
Pearson(pairs) ==
    OverRoot(Covariance(pairs),
             CellMul(Variance(Firsts(pairs)), Variance(Seconds(pairs))))

\* returns.corr(method='pearson'): data[c][d] correlates columns c and d.
CorrelationMatrixOf(r) ==
    [index   |-> r.columns,
     columns |-> r.columns,
     data    |-> [c \in DOMAIN r.data |-> [d \in DOMAIN r.data |->
                     Pearson(AlignedPairs(r.index, r.data[d], r.index, r.data[c]))]]]

\* "symbol1 not in returns.columns and symbol2 not in returns.columns"
BothSymbolsMissing(r, symbol1, symbol2) ==
    ~HasColumn(r, symbol1) /\ ~HasColumn(r, symbol2)

\* symbol1 not in returns.columns or symbol2 not in returns.columns
SymbolsMissing(r, symbol1, symbol2) ==
    ~HasColumn(r, symbol1) \/ ~HasColumn(r, symbol2)

\* returns[symbol1].corr(returns[symbol2], method='pearson')
PairwiseCorrelationOf(r, symbol1, symbol2) ==
    Pearson(AlignedPairs(r.index, ColumnOf(r, symbol1), r.index, ColumnOf(r, symbol2)))

-----------------------------------------------------------------------------
(* calculate_value_at_risk: the method argument *)

\* Any method passes for historical.
ValidMethodAny(method) == TRUE

ValidMethod(method) == method \in {"historical", "parametric"}

\* returns.mean() + z_score * returns.std(), z_score = stats.norm.ppf(1 - c):
\* kept as the symbol of its three parts, NaN when the mean or the
\* deviation is.
ParametricColumn(col, c) ==
    IF IsNull(Mean(col)) \/ IsNull(Variance(col)) THEN Null
    ELSE Some([mean |-> Value(Mean(col)),
               ppf  |-> TailProbability(c),
               sqrt |-> Value(Variance(col))])

ValueAtRiskBy(r, c, method) ==
    IF method = "parametric"
    THEN [index |-> r.columns,
          data  |-> [s \in DOMAIN r.data |-> ParametricColumn(r.data[s], c)]]
    ELSE ValueAtRiskOf(r, c)

-----------------------------------------------------------------------------
(* calculate_beta, calculate_alpha and calculate_information_ratio *)

\* "if symbol": None and the empty string are both falsy.
Given(symbol) == symbol # NoSymbol /\ Value(symbol) # ""

\* symbols_to_calc = [symbol] if symbol else returns.columns
SymbolsToCalc(r, symbol) == IF Given(symbol) THEN <<Value(symbol)>> ELSE r.columns

\* "if sym not in returns.columns: raise ValueError", for some sym of the loop.
BetaRaises(r, symbol) ==
    \E i \in DOMAIN SymbolsToCalc(r, symbol) : ~HasColumn(r, SymbolsToCalc(r, symbol)[i])

\* covariance / market_variance, with covariance = returns[sym].cov(market_returns)
\* and market_variance = market_returns.var()
BetaColumn(r, sym, market) ==
    FloatDiv(Covariance(AlignedPairs(r.index, ColumnOf(r, sym), market.index, market.data)),
             Variance(market.data))

BetaOf(r, market, symbol) ==
    LET symbols_to_calc == SymbolsToCalc(r, symbol)
    IN  [index |-> symbols_to_calc,
         data  |-> [i \in DOMAIN symbols_to_calc |->
                      BetaColumn(r, symbols_to_calc[i], market)]]

\* returns[symbols_to_calc] raises KeyError for a label that is no column.
AlphaRaises(r, symbol) ==
    \E i \in DOMAIN SymbolsToCalc(r, symbol) : ~HasColumn(r, SymbolsToCalc(r, symbol)[i])

\* alpha = stock_returns - expected_return, with
\* expected_return = risk_free_rate + beta * (market_return - risk_free_rate)
\* over every column (beta is computed without the symbol) and
\* stock_returns over symbols_to_calc.  The subtraction aligns the two on
\* the union of their labels, so the result has a row for every column and
\* NaN in the rows stock_returns lacks.  (The union of different indexes is
\* sorted; the symbol lists modelled are in ascending order.)
AlphaOf(r, market, rate, trading_days, symbol) ==
    LET symbols_to_calc == SymbolsToCalc(r, symbol)
        beta            == BetaOf(r, market, NoSymbol)
        market_return   == AnnualMean(market.data, trading_days)
        premium         == CellSub(market_return, Some(rate))
        expected_return == [c \in DOMAIN r.columns |->
                               CellAdd(Some(rate), CellMul(beta.data[c], premium))]
        stock_returns   == [c \in DOMAIN r.columns |->
                               IF \E i \in DOMAIN symbols_to_calc : symbols_to_calc[i] = r.columns[c]
                               THEN AnnualMean(r.data[c], trading_days)
                               ELSE Null]
    IN  [index |-> r.columns,
         data  |-> [c \in DOMAIN r.columns |->
                      CellSub(stock_returns[c], expected_return[c])]]

\* excess_returns = returns.subtract(benchmark_returns, axis=0): the
\* differences at the dates both have a value for, NaN elsewhere.
ExcessColumn(r, c, benchmark) ==
    LET pairs == AlignedPairs(r.index, r.data[c], benchmark.index, benchmark.data)
    IN  [t \in DOMAIN pairs |-> Some(RSub(pairs[t][1], pairs[t][2]))]

\* information_ratio = mean_excess / tracking_error
InformationRatioOf(r, benchmark, trading_days) ==
    [index |-> r.columns,
     data  |-> [c \in DOMAIN r.data |->
                  OverRoot(AnnualMean(ExcessColumn(r, c, benchmark), trading_days),
                           AnnualStd(ExcessColumn(r, c, benchmark), trading_days))]]

-----------------------------------------------------------------------------
(* generate_risk_report *)

\* The columns assigned whatever market_returns is, in assignment order.
BaseColumns ==
    <<"Mean Return (Annual)", "Volatility (Annual)", "Variance (Annual)",
      "Sharpe Ratio", "Sortino Ratio", "Max Drawdown", "VaR (95%)", "CVaR (95%)">>

\* The columns assigned under "if market_returns is not None".
MarketColumns == <<"Beta", "Alpha (Annual)", "Information Ratio">>

\* report[name] = series: the values of the series at the labels of the
\* report's index, NaN at a label the series lacks.
Reindex(series, labels) ==
    [i \in DOMAIN labels |->
        LET at == {u \in DOMAIN series.index : series.index[u] = labels[i]}
        IN  IF at = {} THEN Null ELSE series.data[CHOOSE u \in at : TRUE]]

\* The series assigned to the column called name.
ReportColumn(name, r, p, market, rate) ==
    CASE name = "Mean Return (Annual)" ->
            [index |-> r.columns,
             data  |-> [c \in DOMAIN r.data |-> Times(Mean(r.data[c]), 252)]]
      [] name = "Volatility (Annual)" -> VolatilityOf(r, TRUE, 252)
      [] name = "Variance (Annual)"   -> VarianceOf(r, TRUE, 252)
      [] name = "Sharpe Ratio"        -> SharpeRatioOf(r, EffectiveRate(NoRate, rate), 252)
      [] name = "Sortino Ratio"       -> SortinoRatioOf(r, EffectiveRate(NoRate, rate), 252)
      [] name = "Max Drawdown"        -> MaxDrawdownOf(p)
      [] name = "VaR (95%)"           -> ValueAtRiskBy(r, 95, "historical")
      [] name = "CVaR (95%)"          -> ConditionalVarOf(r, 95)
      [] name = "Beta"                -> BetaOf(r, market, NoSymbol)
      [] name = "Alpha (Annual)"      ->
            AlphaOf(r, market, EffectiveRate(NoRate, rate), 252, NoSymbol)
      [] name = "Information Ratio"   -> InformationRatioOf(r, market, 252)

\* report = pd.DataFrame(index=returns.columns), then one assignment per
\* column: data[k] holds the column columns[k] over the rows of the report.
ReportOver(r, p, market, rate, columns) ==
    [index   |-> r.columns,
     columns |-> columns,
     data    |-> [k \in DOMAIN columns |->
                    Reindex(ReportColumn(columns[k], r, p, market, rate), r.columns)]]

\* A report that always carries the market columns.
RiskReportWithMarketColumns(r, p, market, rate) ==
    ReportOver(r, p, market, rate, BaseColumns \o MarketColumns)

\* A report computed at the default rate of __init__, whatever rate the
\* analyzer was constructed with.
RiskReportAtDefaultRate(r, p, market, rate) ==
    ReportOver(r, p, market, DefaultRate,
               BaseColumns \o (IF market.present THEN MarketColumns ELSE <<>>))

\* generate_risk_report(returns, prices, market_returns)
RiskReportOf(r, p, market, rate) ==
    ReportOver(r, p, market, rate,
               BaseColumns \o (IF market.present THEN MarketColumns ELSE <<>>))

\* market_returns=None
NoMarket == [present |-> FALSE, index |-> <<>>, data |-> <<>>]

\* A market series over the dates of r.
MarketOver(r) ==
    [present |-> TRUE,
     index   |-> r.index,
     data    |-> [t \in DOMAIN r.index |-> Some(RInt(0))]]

\* report = self.generate_risk_report(returns, prices, market)
RiskReportStep(market) ==
    /\ market_returns' = market
    /\ report' = RiskReportOf(returns, prices, market, risk_free_rate)
    /\ pc' = "report"
    /\ UNCHANGED <<prices, confidence_level, error, return_type, returns,
                   max_drawdown, var, cvar>>
    /\ UNCHANGED fetchVars
    /\ UNCHANGED callVars
    /\ UNCHANGED clientVars

\* risk_report = analyzer.generate_risk_report(returns, prices, market)
GenerateRiskReport(market) ==
    /\ pc = "cvar"
    /\ RiskReportStep(market)

-----------------------------------------------------------------------------
Init ==
    /\ pc = "idle"
    /\ symbols = <<>>
    /\ start_date = NoDate
    /\ end_date = NoDate
    /\ interval = "daily"
    /\ dates = <<>>
    /\ current = 0
    /\ price_data = <<>>
    /\ symbol_prices = <<>>
    /\ calls = <<>>
    /\ error = "none"
    /\ prices = EmptyFrame
    /\ return_type = "simple"
    /\ returns = EmptyFrame
    /\ max_drawdown = NoSeries
    /\ confidence_level = 95
    /\ var = NoSeries
    /\ cvar = NoSeries
    /\ market_returns = NoMarket
    /\ report = NoReport
    /\ risk_free_rate = DefaultRate
    /\ call = NoCall
    /\ result = NoResult
    /\ ClientIdle

Next ==
    \/ \E syms \in SymbolLists, s \in StartDates, e \in EndDates, i \in Intervals :
          FetchHistoricalData(syms, s, e, i, e)
    \/ \E syms \in SymbolLists, s \in StartDates, now \in EndDates, i \in Intervals :
          FetchHistoricalData(syms, s, NoDate, i, now)
    \/ FetchPriceReturns
    \/ FetchPriceReturnsNone
    \/ FetchPriceRaises
    \/ StoreSymbol
    \/ BuildFrame
    \/ ReturnPrices
    \/ CalculateReturns("simple")
    \/ CalculateMaxDrawdown
    \/ CalculateValueAtRisk
    \/ CalculateConditionalVar
    \/ GenerateRiskReport(NoMarket)
    \/ GenerateRiskReport(MarketOver(returns))

Spec == Init /\ [][Next]_vars

-----------------------------------------------------------------------------
(* The metric functions on their own: calculate_returns and                *)
(* calculate_max_drawdown applied to any aligned price matrix              *)

\* The most rows of a price matrix handed to the metric functions.
MaxRows == 3

MetricSymbols == {<<"A">>, <<"A", "B">>}

MetricPrices == {50, 100, 110, 121}

ReturnTypes == {"simple", "log", "compound"}

\* n consecutive days from 2024-01-01.
RowDates(n) == [t \in 1..n |-> Strftime(t - 1)]

\* The columns of an aligned matrix: after ffill and bfill a column has a
\* price in every row or in none.
AlignedColumns(n) ==
    {[t \in 1..n |-> Null]} \cup {[t \in 1..n |-> Some(f[t])] : f \in [1..n -> MetricPrices]}

FetchIdle ==
    /\ symbols = <<>>
    /\ start_date = NoDate
    /\ end_date = NoDate
    /\ interval = "daily"
    /\ dates = <<>>
    /\ current = 0
    /\ price_data = <<>>
    /\ symbol_prices = <<>>
    /\ calls = <<>>
    /\ error = "none"

InitMetrics ==
    /\ pc = "prices"
    /\ FetchIdle
    /\ \E n \in 0..MaxRows, syms \in MetricSymbols :
          \E data \in [1..Len(syms) -> AlignedColumns(n)] :
              prices = DataFrame(data, RowDates(n), syms)
    /\ return_type = "simple"
    /\ returns = EmptyFrame
    /\ max_drawdown = NoSeries
    /\ confidence_level = 95
    /\ var = NoSeries
    /\ cvar = NoSeries
    /\ market_returns = NoMarket
    /\ report = NoReport
    /\ risk_free_rate = DefaultRate
    /\ call = NoCall
    /\ result = NoResult
    /\ ClientIdle

NextMetrics ==
    \/ \E rt \in ReturnTypes : CalculateReturns(rt)
    \/ CalculateMaxDrawdown

SpecMetrics == InitMetrics /\ [][NextMetrics]_vars

-----------------------------------------------------------------------------
(* The tail metrics on their own: calculate_value_at_risk and              *)
(* calculate_conditional_var applied to any returns matrix                 *)

\* The most rows of a returns matrix handed to the tail metrics.
MaxObservations == 4

TailValues == {<<-1, 2>>, <<-1, 10>>, <<0, 1>>, <<1, 10>>, <<1, 3>>}

\* Confidence levels, in percent.
ConfidenceLevels == {50, 75, 90, 95, 99}

InitTail ==
    /\ pc = "drawdown"
    /\ FetchIdle
    /\ prices = EmptyFrame
    /\ return_type = "simple"
    /\ \E n \in 0..MaxObservations :
          \E f \in [1..n -> TailValues] :
              returns = DataFrame(<<[t \in 1..n |-> Some(f[t])]>>, RowDates(n), <<"A">>)
    /\ max_drawdown = NoSeries
    /\ confidence_level \in ConfidenceLevels
    /\ var = NoSeries
    /\ cvar = NoSeries
    /\ market_returns = NoMarket
    /\ report = NoReport
    /\ risk_free_rate = DefaultRate
    /\ call = NoCall
    /\ result = NoResult
    /\ ClientIdle

NextTail ==
    \/ CalculateValueAtRisk
    \/ CalculateConditionalVar

SpecTail == InitTail /\ [][NextTail]_vars

-----------------------------------------------------------------------------
(* The analysis functions called in any order on the returns of an         *)
(* aligned price matrix, with any of their arguments                       *)

AnalysisSymbols == {<<"A">>, <<"A", "B">>}

AnalysisPrices == {50, 100}

\* The columns of an aligned matrix over AnalysisPrices.
AnalysisColumns(n) ==
    {[t \in 1..n |-> Null]} \cup {[t \in 1..n |-> Some(f[t])] : f \in [1..n -> AnalysisPrices]}

\* The rates an analyzer is constructed with.
ConfiguredRates == {DefaultRate, RNorm(1, 100)}

\* The risk_free_rate arguments: None, zero and a rate no analyzer has.
RateArguments == {NoRate, Some(RInt(0)), Some(RNorm(2, 100))}

\* The symbol arguments: None, columns, a label that is no column and the
\* empty string.
SymbolArguments == {NoSymbol, Some("A"), Some("B"), Some("Z"), Some("")}

PairSymbols == {"A", "B", "Z"}

Methods == {"historical", "parametric", "montecarlo"}

MarketValues == {RInt(0), RNorm(1, 10)}

\* The market series main computes from SPY over the dates of the price
\* matrix: one row fewer than the n rows of prices.
MarketSeries(n) ==
    LET index == SubSeq(RowDates(n), 2, n)
    IN  {[present |-> TRUE, index |-> index, data |-> [t \in DOMAIN index |-> Some(f[t])]] :
            f \in [DOMAIN index -> MarketValues]}

\* The call c returned value, or raised when raised is not "none"; the
\* tables other than returns are left as they were.
Returned(c, value, raised) ==
    /\ pc = "returns"
    /\ return_type = "simple"
    /\ call' = c
    /\ result' = value
    /\ error' = raised
    /\ pc' = "called"
    /\ UNCHANGED <<prices, confidence_level, return_type, max_drawdown, var,
                   cvar, market_returns, report, risk_free_rate>>
    /\ UNCHANGED fetchVars
    /\ UNCHANGED clientVars

\* analyzer.calculate_correlation_matrix(returns)
CalculateCorrelationMatrix ==
    /\ Returned([fn |-> "calculate_correlation_matrix"],
                CorrelationMatrixOf(returns), "none")
    /\ UNCHANGED returns

\* analyzer.calculate_pairwise_correlation(returns, symbol1, symbol2)
CalculatePairwiseCorrelation(symbol1, symbol2) ==
    LET c == [fn |-> "calculate_pairwise_correlation",
              symbol1 |-> symbol1, symbol2 |-> symbol2]
    IN  /\ IF SymbolsMissing(returns, symbol1, symbol2)
           THEN Returned(c, NoResult, "ValueError")
           ELSE IF ~HasColumn(returns, symbol1) \/ ~HasColumn(returns, symbol2)
           THEN Returned(c, NoResult, "KeyError")
           ELSE Returned(c, [value |-> PairwiseCorrelationOf(returns, symbol1, symbol2)],
                         "none")
        /\ UNCHANGED returns

\* analyzer.calculate_volatility(returns, annualize)
CalculateVolatility(annualize) ==
    /\ Returned([fn |-> "calculate_volatility", annualize |-> annualize],
                VolatilityOf(returns, annualize, 252), "none")
    /\ UNCHANGED returns

\* analyzer.calculate_variance(returns, annualize)
CalculateVariance(annualize) ==
    /\ Returned([fn |-> "calculate_variance", annualize |-> annualize],
                VarianceOf(returns, annualize, 252), "none")
    /\ UNCHANGED returns

\* analyzer.calculate_sharpe_ratio(returns, risk_free_rate=rate)
CalculateSharpeRatio(rate) ==
    /\ Returned([fn |-> "calculate_sharpe_ratio", risk_free_rate |-> rate],
                SharpeRatioOf(returns, EffectiveRate(rate, risk_free_rate), 252), "none")
    /\ UNCHANGED returns

\* The clamping without the copy: the assignment writes to the caller's
\* returns.
ReturnsClampedInPlace(r) == ClampFrame(r)

\* downside_returns = returns.copy(): the clamping assignment writes to
\* the copy, and the caller's returns are what they were.
ReturnsAfterClamp(r) == r

\* analyzer.calculate_sortino_ratio(returns, risk_free_rate=rate)
CalculateSortinoRatio(rate) ==
    /\ Returned([fn |-> "calculate_sortino_ratio", risk_free_rate |-> rate],
                SortinoRatioOf(returns, EffectiveRate(rate, risk_free_rate), 252), "none")
    /\ returns' = ReturnsAfterClamp(returns)

\* analyzer.calculate_max_drawdown(prices), its result kept by the caller
MaxDrawdownCall ==
    /\ Returned([fn |-> "calculate_max_drawdown"], MaxDrawdownOf(prices), "none")
    /\ UNCHANGED returns

\* analyzer.calculate_value_at_risk(returns, confidence_level, method)
ValueAtRiskCall(method) ==
    LET c == [fn |-> "calculate_value_at_risk", method |-> method]
    IN  /\ IF ValidMethod(method)
           THEN Returned(c, ValueAtRiskBy(returns, confidence_level, method), "none")
           ELSE Returned(c, NoResult, "ValueError")
        /\ UNCHANGED returns

\* analyzer.calculate_conditional_var(returns, confidence_level)
ConditionalVarCall ==
    /\ Returned([fn |-> "calculate_conditional_var"],
                ConditionalVarOf(returns, confidence_level), "none")
    /\ UNCHANGED returns

\* analyzer.calculate_beta(returns, market_returns, symbol)
CalculateBeta(symbol) ==
    LET c == [fn |-> "calculate_beta", symbol |-> symbol]
    IN  /\ market_returns.present
        /\ IF BetaRaises(returns, symbol)
           THEN Returned(c, NoResult, "ValueError")
           ELSE Returned(c, BetaOf(returns, market_returns, symbol), "none")
        /\ UNCHANGED returns

\* analyzer.calculate_alpha(returns, market_returns, symbol, risk_free_rate=rate)
CalculateAlpha(symbol, rate) ==
    LET c == [fn |-> "calculate_alpha", symbol |-> symbol, risk_free_rate |-> rate]
    IN  /\ market_returns.present
        /\ IF AlphaRaises(returns, symbol)
           THEN Returned(c, NoResult, "KeyError")
           ELSE Returned(c, AlphaOf(returns, market_returns,
                                    EffectiveRate(rate, risk_free_rate), 252, symbol),
                         "none")
        /\ UNCHANGED returns

\* analyzer.calculate_information_ratio(returns, market_returns)
CalculateInformationRatio ==
    /\ market_returns.present
    /\ Returned([fn |-> "calculate_information_ratio"],
                InformationRatioOf(returns, market_returns, 252), "none")
    /\ UNCHANGED returns

\* analyzer.generate_risk_report(returns, prices, market_returns)
RiskReportCall ==
    /\ pc = "returns"
    /\ return_type = "simple"
    /\ RiskReportStep(market_returns)

\* The caller is done with the value a call returned and goes on to its
\* next call.
NextCall ==
    /\ pc = "called"
    /\ error = "none"
    /\ pc' = "returns"
    /\ call' = NoCall
    /\ result' = NoResult
    /\ UNCHANGED <<prices, confidence_level, error, return_type, returns,
                   max_drawdown, var, cvar, market_returns, report, risk_free_rate>>
    /\ UNCHANGED fetchVars
    /\ UNCHANGED clientVars

InitAnalysis ==
    /\ pc = "prices"
    /\ FetchIdle
    /\ \E n \in 0..MaxRows, syms \in AnalysisSymbols :
          /\ \E data \in [1..Len(syms) -> AnalysisColumns(n)] :
                prices = DataFrame(data, RowDates(n), syms)
          /\ market_returns \in {NoMarket} \cup MarketSeries(n)
    /\ return_type = "simple"
    /\ returns = EmptyFrame
    /\ max_drawdown = NoSeries
    /\ confidence_level = 95
    /\ var = NoSeries
    /\ cvar = NoSeries
    /\ report = NoReport
    /\ risk_free_rate \in ConfiguredRates
    /\ call = NoCall
    /\ result = NoResult
    /\ ClientIdle

NextAnalysis ==
    \/ \E rt \in ReturnTypes : CalculateReturns(rt)
    \/ CalculateCorrelationMatrix
    \/ \E symbol1, symbol2 \in PairSymbols : CalculatePairwiseCorrelation(symbol1, symbol2)
    \/ \E annualize \in BOOLEAN : CalculateVolatility(annualize)
    \/ \E annualize \in BOOLEAN : CalculateVariance(annualize)
    \/ \E rate \in RateArguments : CalculateSharpeRatio(rate)
    \/ \E rate \in RateArguments : CalculateSortinoRatio(rate)
    \/ MaxDrawdownCall
    \/ \E method \in Methods : ValueAtRiskCall(method)
    \/ ConditionalVarCall
    \/ \E symbol \in SymbolArguments : CalculateBeta(symbol)
    \/ \E symbol \in SymbolArguments, rate \in RateArguments : CalculateAlpha(symbol, rate)
    \/ CalculateInformationRatio
    \/ RiskReportCall
    \/ NextCall

SpecAnalysis == InitAnalysis /\ [][NextAnalysis]_vars

-----------------------------------------------------------------------------
(* The date loop of fetch_historical_data, one pass at a time, for dates   *)
(* up to datetime.max                                                      *)

GridStartDates == {<<2024, 2, 27>>, <<9999, 12, 30>>}

\* end_date - start_date, in days, of the calls modelled.
GridSpans == {-1, 0, 1, 2, 7, 14, 30, 60}

\* The end dates handed over with the start date s: dates that exist.
GridEndDates(s) ==
    {Strftime(Strptime(s) + k) : k \in {j \in GridSpans : Strptime(s) + j <= MaxDatetime}}

\* A loop condition that lets one more date through: current <= end + delta.
InGridLoopPastEnd == current <= Strptime(end_date) + Delta(interval)

\* while current <= end
InGridLoop == current <= Strptime(end_date)

\* fetch_historical_data is called: the dates are parsed, the step is
\* chosen, and "dates = []; current = start".
StartGrid(syms, s, e, i) ==
    /\ pc = "idle"
    /\ symbols' = syms
    /\ start_date' = s
    /\ end_date' = e
    /\ interval' = i
    /\ dates' = <<>>
    /\ IF ValidInterval(i)
       THEN /\ GridLen(s, e, i) <= MaxDates
            /\ current' = Strptime(s)
            /\ pc' = "grid"
            /\ error' = "none"
       ELSE /\ current' = current
            /\ pc' = "raised"
            /\ error' = "ValueError"
    /\ price_data' = <<>>
    /\ symbol_prices' = <<>>
    /\ calls' = <<>>
    /\ UNCHANGED <<prices, confidence_level>>
    /\ UNCHANGED metricVars
    /\ UNCHANGED callVars
    /\ UNCHANGED clientVars

\* One pass of the loop: dates.append(current.strftime('%Y-%m-%d')), then
\* current += delta, which raises OverflowError when the sum is later than
\* datetime.max.
AppendDate ==
    /\ pc = "grid"
    /\ InGridLoop
    /\ dates' = Append(dates, Strftime(current))
    /\ IF current + Delta(interval) > MaxDatetime
       THEN /\ current' = current
            /\ pc' = "raised"
            /\ error' = "OverflowError"
       ELSE /\ current' = current + Delta(interval)
            /\ UNCHANGED <<pc, error>>
    /\ UNCHANGED <<symbols, start_date, end_date, interval, price_data,
                   symbol_prices, calls, prices, confidence_level>>
    /\ UNCHANGED metricVars
    /\ UNCHANGED callVars
    /\ UNCHANGED clientVars

\* The loop condition fails: "price_data = {}" and on to the symbols.
GridDone ==
    /\ pc = "grid"
    /\ ~InGridLoop
    /\ pc' = "fetching"
    /\ UNCHANGED <<error, prices, confidence_level>>
    /\ UNCHANGED fetchVars
    /\ UNCHANGED metricVars
    /\ UNCHANGED callVars
    /\ UNCHANGED clientVars

NextGrid ==
    \/ \E syms \in SymbolLists, s \in GridStartDates, i \in Intervals :
          \E e \in GridEndDates(s) : StartGrid(syms, s, e, i)
    \/ AppendDate
    \/ GridDone
    \/ FetchPriceReturns
    \/ FetchPriceReturnsNone
    \/ FetchPriceRaises
    \/ StoreSymbol
    \/ BuildFrame
    \/ ReturnPrices

SpecGrid == Init /\ [][NextGrid]_vars

\* The loop is straight-line code of one thread: while a pass of the loop or
\* its exit can be taken, the interpreter takes it.
FairSpecGrid == SpecGrid /\ WF_vars(AppendDate) /\ WF_vars(GridDone)

-----------------------------------------------------------------------------
(* Step 6 of analyze_portfolio.main: the market benchmark is fetched and   *)
(* the risk report is generated and saved                                  *)

\* The prices the fetcher returns for SPY.
MarketFetchPrices == {100}

\* What a call fetcher.fetch_price('SPY', date) comes to: it raises, it
\* returns a dict with a null price, or it returns a price.
MarketOutcomes ==
    {[outcome |-> "raised", price |-> Null], [outcome |-> "returned", price |-> Null]}
        \cup {[outcome |-> "returned", price |-> Some(p)] : p \in MarketFetchPrices}

\* The calls of fetch_historical_data(fetcher, ['SPY'], start_date, end_date,
\* 'daily'), one per date, with the outcomes given date by date.
MarketCalls(index, outcomes) ==
    [t \in DOMAIN index |->
        [symbol |-> "SPY", date |-> index[t],
         outcome |-> outcomes[t].outcome, price |-> outcomes[t].price]]

\* The matrix fetch_historical_data returns for those calls: a call that
\* raised leaves None as a null price does, then ffill and bfill.
MarketPrices(index, spy_calls) ==
    AlignedFrame(DataFrame(<<[t \in DOMAIN spy_calls |-> spy_calls[t].price]>>,
                           index, <<"SPY">>))

\* market_returns = analyzer.calculate_returns(market_prices)['SPY']
MarketReturnsOf(market_prices) ==
    LET r == ReturnsOf(market_prices, "simple")
    IN  [present |-> TRUE, index |-> r.index, data |-> ColumnOf(r, "SPY")]

\* market_prices = analyzer.fetch_historical_data(...) in the try block
\* of step 6, over the dates of the portfolio's matrix: main hands both
\* fetches the same start date, end date and interval.  No failure of
\* fetch_price leaves fetch_historical_data as an exception.
FetchMarketData(outcomes) ==
    /\ pc = "cvar"
    /\ calls' = MarketCalls(prices.index, outcomes)
    /\ call' = [fn |-> "fetch_historical_data", symbols |-> <<"SPY">>]
    /\ result' = MarketPrices(prices.index, MarketCalls(prices.index, outcomes))
    /\ pc' = "market"
    /\ UNCHANGED <<symbols, start_date, end_date, interval, dates, current, price_data,
                   symbol_prices, error, prices, confidence_level, risk_free_rate>>
    /\ UNCHANGED metricVars
    /\ UNCHANGED clientVars

\* The rest of the try block: the market returns are computed and the
\* full report is generated.  Neither raises, so the except block, which
\* would generate the report with market_returns=None, is not entered.
MarketReport ==
    /\ pc = "market"
    /\ market_returns' = MarketReturnsOf(result)
    /\ report' = RiskReportOf(returns, prices, MarketReturnsOf(result), risk_free_rate)
    /\ pc' = "report"
    /\ UNCHANGED <<prices, confidence_level, error, return_type, returns,
                   max_drawdown, var, cvar>>
    /\ UNCHANGED fetchVars
    /\ UNCHANGED callVars
    /\ UNCHANGED clientVars

\* risk_report.to_csv(risk_report_file)
SaveReport ==
    /\ pc = "report"
    /\ pc' = "saved"
    /\ UNCHANGED <<prices, confidence_level, error>>
    /\ UNCHANGED fetchVars
    /\ UNCHANGED metricVars
    /\ UNCHANGED callVars
    /\ UNCHANGED clientVars

\* main after step 1: the portfolio's prices over daily dates.
InitMain ==
    /\ pc = "prices"
    /\ FetchIdle
    /\ \E n \in 0..MaxRows, syms \in AnalysisSymbols :
          \E data \in [1..Len(syms) -> AnalysisColumns(n)] :
              prices = DataFrame(data, RowDates(n), syms)
    /\ return_type = "simple"
    /\ returns = EmptyFrame
    /\ max_drawdown = NoSeries
    /\ confidence_level = 95
    /\ var = NoSeries
    /\ cvar = NoSeries
    /\ market_returns = NoMarket
    /\ report = NoReport
    /\ risk_free_rate \in ConfiguredRates
    /\ call = NoCall
    /\ result = NoResult
    /\ ClientIdle

NextMain ==
    \/ CalculateReturns("simple")
    \/ CalculateMaxDrawdown
    \/ CalculateValueAtRisk
    \/ CalculateConditionalVar
    \/ \E outcomes \in [DOMAIN prices.index -> MarketOutcomes] : FetchMarketData(outcomes)
    \/ MarketReport
    \/ SaveReport

SpecMain == InitMain /\ [][NextMain]_vars

-----------------------------------------------------------------------------
(* The fetchers: BaseFetcher.exponential_backoff and the retry loops of    *)
(* PolygonFetcher.fetch_price and YFinanceFetcher.fetch_price              *)

\* The largest max_retries a modelled fetcher is constructed with.
MaxRetries == 8

\* The max_retries values handed to the constructors.
RetryCounts == -1..MaxRetries

Fetchers == {"PolygonFetcher", "YFinanceFetcher"}

\* The date argument of fetch_price: None or a date.
DateArguments == {NoDate, <<2024, 2, 27>>}

\* The closing prices a response holds; Null is a response without one.
ResponsePrices == {Null, Some(100)}

\* The currencies ticker.info reports; Null is an info without the key.
InfoCurrencies == {Null, Some("USD"), Some("TWD")}

\* The delay without the cap of max_delay.
UncappedBackoff(k, base_delay, max_delay) == base_delay * 2 ^ k

\* delay = min(base_delay * (2 ** attempt), max_delay), for attempt = k
exponential_backoff(k, base_delay, max_delay) ==
    LET delay == base_delay * 2 ^ k
    IN  IF delay < max_delay THEN delay ELSE max_delay

\* The value of a function that returned None.
ReturnedNone == [value |-> Null]

\* {'price': price, 'date': date, 'currency': currency}
PriceDict(price, date, currency) ==
    [price |-> price, date |-> date, currency |-> currency]

\* time.sleep(seconds) in the pass of the loop numbered k.
Sleep(k, seconds) == Append(slept, [after |-> k, delay |-> seconds])

\* One pass of the loop body is recorded with its outcome.
Attempted(outcome) == Append(attempts, [attempt |-> attempt, outcome |-> outcome])

\* fetcher.fetch_price(symbol, date) is called: "for attempt in
\* range(self.max_retries)" starts.
FetchPrice(fetcher, date) ==
    /\ pc = "client"
    /\ call' = [fn |-> "fetch_price", fetcher |-> fetcher, date |-> date]
    /\ result' = NoResult
    /\ attempt' = 0
    /\ attempts' = <<>>
    /\ slept' = <<>>
    /\ pc' = "retry"
    /\ UNCHANGED <<error, prices, confidence_level, risk_free_rate, max_retries, cache>>
    /\ UNCHANGED fetchVars
    /\ UNCHANGED metricVars

\* range(self.max_retries) is exhausted: the function body ends without a
\* return statement, which returns None.
FetchLoopEnds ==
    /\ pc = "retry"
    /\ call.fn = "fetch_price"
    /\ ~(attempt < max_retries)
    /\ result' = ReturnedNone
    /\ pc' = "returned"
    /\ UNCHANGED <<call, error, prices, confidence_level, risk_free_rate>>
    /\ UNCHANGED clientVars
    /\ UNCHANGED fetchVars
    /\ UNCHANGED metricVars

\* PolygonFetcher, "except Exception": the pass raised; back off and go round again, or
\* return the null price from the last pass.
PolygonAttemptRaises ==
    /\ pc = "retry"
    /\ call.fn = "fetch_price"
    /\ call.fetcher = "PolygonFetcher"
    /\ attempt < max_retries
    /\ attempts' = Attempted("exception")
    /\ IF attempt < max_retries - 1
       THEN /\ slept' = Sleep(attempt, RInt(exponential_backoff(attempt, 1, 60)))
            /\ attempt' = attempt + 1
            /\ UNCHANGED <<pc, result>>
       ELSE /\ result' = PriceDict(Null, NoDate, "USD")
            /\ pc' = "returned"
            /\ UNCHANGED <<slept, attempt>>
    /\ UNCHANGED <<call, error, prices, confidence_level, risk_free_rate, max_retries, cache>>
    /\ UNCHANGED fetchVars
    /\ UNCHANGED metricVars

\* YFinanceFetcher, "except Exception": the pass raised; back off and go round again, or
\* return the null price from the last pass.
YFinanceAttemptRaises ==
    /\ pc = "retry"
    /\ call.fn = "fetch_price"
    /\ call.fetcher = "YFinanceFetcher"
    /\ attempt < max_retries
    /\ attempts' = Attempted("exception")
    /\ IF attempt < max_retries - 1
       THEN /\ slept' = Sleep(attempt, RInt(exponential_backoff(attempt, 1, 60)))
            /\ attempt' = attempt + 1
            /\ UNCHANGED <<pc, result>>
       ELSE /\ result' = PriceDict(Null, NoDate, "USD")
            /\ pc' = "returned"
            /\ UNCHANGED <<slept, attempt>>
    /\ UNCHANGED <<call, error, prices, confidence_level, risk_free_rate, max_retries, cache>>
    /\ UNCHANGED fetchVars
    /\ UNCHANGED metricVars

\* PolygonFetcher: "if response.status_code == 429"
PolygonRateLimited ==
    /\ pc = "retry"
    /\ call.fn = "fetch_price"
    /\ call.fetcher = "PolygonFetcher"
    /\ attempt < max_retries
    /\ attempts' = Attempted("429")
    /\ IF attempt < max_retries - 1
       THEN /\ slept' = Sleep(attempt, RInt(exponential_backoff(attempt, 2, 60)))
            /\ attempt' = attempt + 1
            /\ UNCHANGED <<pc, result>>
       ELSE /\ result' = PriceDict(Null, NoDate, "USD")
            /\ pc' = "returned"
            /\ UNCHANGED <<slept, attempt>>
    /\ UNCHANGED <<call, error, prices, confidence_level, risk_free_rate, max_retries, cache>>
    /\ UNCHANGED fetchVars
    /\ UNCHANGED metricVars

\* PolygonFetcher: the response is read, time.sleep(12.5) paces the calls
\* and the dict is returned.  With a date the price is data.get('close') and
\* the date is the argument; without one they come from results[0], or are
\* None when results is empty (actual = NoDate).
PolygonResponds(price, actual) ==
    /\ pc = "retry"
    /\ call.fn = "fetch_price"
    /\ call.fetcher = "PolygonFetcher"
    /\ attempt < max_retries
    /\ actual = NoDate => price = Null
    /\ attempts' = Attempted("result")
    /\ slept' = Sleep(attempt, RNorm(25, 2))
    /\ result' = IF call.date # NoDate
                 THEN PriceDict(price, call.date, "USD")
                 ELSE PriceDict(price, actual, "USD")
    /\ pc' = "returned"
    /\ UNCHANGED <<call, error, prices, confidence_level, risk_free_rate, max_retries,
                   attempt, cache>>
    /\ UNCHANGED fetchVars
    /\ UNCHANGED metricVars

\* YFinanceFetcher: the history was read.  hist.empty (price = Null)
\* returns the null price with the date asked for; otherwise the first or
\* last close is returned with its date.  currency = info.get('currency',
\* 'USD').
YFinanceResponds(info, price, actual) ==
    LET currency == IF IsNull(info) THEN "USD" ELSE Value(info)
    IN  /\ pc = "retry"
        /\ call.fn = "fetch_price"
        /\ call.fetcher = "YFinanceFetcher"
        /\ attempt < max_retries
        /\ actual # NoDate
        /\ attempts' = Attempted("result")
        /\ result' = IF IsNull(price)
                     THEN PriceDict(Null, call.date, currency)
                     ELSE PriceDict(price, actual, currency)
        /\ pc' = "returned"
        /\ UNCHANGED <<call, error, prices, confidence_level, risk_free_rate, max_retries,
                       attempt, slept, cache>>
        /\ UNCHANGED fetchVars
        /\ UNCHANGED metricVars

\* The caller has the value and is free to call again.
FetchPriceDone ==
    /\ pc = "returned"
    /\ call.fn = "fetch_price"
    /\ pc' = "client"
    /\ UNCHANGED <<call, result, error, prices, confidence_level, risk_free_rate>>
    /\ UNCHANGED clientVars
    /\ UNCHANGED fetchVars
    /\ UNCHANGED metricVars

\* A fetcher constructed with any max_retries.
InitFetchers ==
    /\ pc = "client"
    /\ FetchIdle
    /\ prices = EmptyFrame
    /\ return_type = "simple"
    /\ returns = EmptyFrame
    /\ max_drawdown = NoSeries
    /\ confidence_level = 95
    /\ var = NoSeries
    /\ cvar = NoSeries
    /\ market_returns = NoMarket
    /\ report = NoReport
    /\ risk_free_rate = DefaultRate
    /\ call = NoCall
    /\ result = NoResult
    /\ max_retries \in RetryCounts
    /\ attempt = 0
    /\ attempts = <<>>
    /\ slept = <<>>
    /\ cache = <<>>

NextFetchers ==
    \/ \E fetcher \in Fetchers, date \in DateArguments : FetchPrice(fetcher, date)
    \/ FetchLoopEnds
    \/ PolygonAttemptRaises
    \/ YFinanceAttemptRaises
    \/ PolygonRateLimited
    \/ \E price \in ResponsePrices, actual \in DateArguments : PolygonResponds(price, actual)
    \/ \E info \in InfoCurrencies, price \in ResponsePrices, actual \in DateArguments :
          YFinanceResponds(info, price, actual)
    \/ FetchPriceDone

SpecFetchers == InitFetchers /\ [][NextFetchers]_vars

-----------------------------------------------------------------------------
(* CurrencyConverter: get_rate with its cache and retry loop, and convert  *)

\* The largest max_retries handed to get_rate.
MaxRateRetries == 3

\* get_rate(..., max_retries: int = 3)
DefaultRateRetries == 3

Currencies == {"USD", "TWD"}

\* rates.get(to_currency) of a response: missing, zero, or a rate.
ResponseRates == {Null, Some(RInt(0)), Some(RNorm(1, 32)), Some(RNorm(1, 30))}

\* The prices handed to convert.
ConvertPrices == {Null, Some(RInt(100))}

\* cache_key = f"{from_currency}_{to_currency}"
CacheKey(from_currency, to_currency) == from_currency \o "_" \o to_currency

\* "if rate:" for a rate that is None or a number, None included as falsy.
NotNone(rate) == ~IsNull(rate)

\* "if rate:" and "if exchange_rate:": None and zero are falsy.
Truthy(rate) == ~IsNull(rate) /\ Value(rate) # RInt(0)

\* self._cache[cache_key] = rate
Cached(key, rate) == [k \in DOMAIN cache \cup {key} |-> IF k = key THEN rate ELSE cache[k]]

\* What convert returns for the exchange rate get_rate handed it:
\* price * exchange_rate, or the price as it was when the rate is falsy.
Converted(price, exchange_rate) ==
    IF Truthy(exchange_rate)
    THEN Some(RMul(Value(price), Value(exchange_rate)))
    ELSE price

\* get_rate returns value; when convert made the call, convert goes on with
\* it to its own return.
RateReturned(value) ==
    /\ pc' = "returned"
    /\ IF call.fn = "convert"
       THEN /\ call' = [call EXCEPT !.exchange_rate = value]
            /\ result' = [value |-> Converted(call.price, value)]
       ELSE /\ call' = call
            /\ result' = [value |-> value]

\* converter.get_rate(from_currency, to_currency, max_retries)
GetRate(from_currency, to_currency, retries) ==
    /\ pc = "client"
    /\ attempt' = 0
    /\ attempts' = <<>>
    /\ slept' = <<>>
    /\ LET c   == [fn |-> "get_rate", from_currency |-> from_currency,
                   to_currency |-> to_currency, max_retries |-> retries]
           key == CacheKey(from_currency, to_currency)
       IN  /\ call' = c
           /\ IF from_currency = to_currency
              THEN result' = [value |-> Some(RInt(1))] /\ pc' = "returned"
              ELSE IF key \in DOMAIN cache
              THEN result' = [value |-> Some(cache[key])] /\ pc' = "returned"
              ELSE result' = NoResult /\ pc' = "retry"
    /\ UNCHANGED <<error, prices, confidence_level, risk_free_rate, max_retries, cache>>
    /\ UNCHANGED fetchVars
    /\ UNCHANGED metricVars

\* converter.convert(price, from_currency, to_currency), up to its return
\* or to the first request of the get_rate it calls.
Convert(price, from_currency, to_currency) ==
    /\ pc = "client"
    /\ attempt' = 0
    /\ attempts' = <<>>
    /\ slept' = <<>>
    /\ LET c   == [fn |-> "convert", price |-> price, from_currency |-> from_currency,
                   to_currency |-> to_currency, max_retries |-> DefaultRateRetries,
                   exchange_rate |-> Null]
           key == CacheKey(from_currency, to_currency)
       IN  IF IsNull(price) \/ from_currency = to_currency
           THEN call' = c /\ result' = [value |-> price] /\ pc' = "returned"
           ELSE IF key \in DOMAIN cache
           THEN /\ call' = [c EXCEPT !.exchange_rate = Some(cache[key])]
                /\ result' = [value |-> Converted(price, Some(cache[key]))]
                /\ pc' = "returned"
           ELSE call' = c /\ result' = NoResult /\ pc' = "retry"
    /\ UNCHANGED <<error, prices, confidence_level, risk_free_rate, max_retries, cache>>
    /\ UNCHANGED fetchVars
    /\ UNCHANGED metricVars

InGetRate == pc = "retry" /\ call.fn \in {"get_rate", "convert"}

\* range(max_retries) is exhausted: "return None" after the loop.
RateLoopEnds ==
    /\ InGetRate
    /\ ~(attempt < call.max_retries)
    /\ RateReturned(Null)
    /\ UNCHANGED <<error, prices, confidence_level, risk_free_rate>>
    /\ UNCHANGED clientVars
    /\ UNCHANGED fetchVars
    /\ UNCHANGED metricVars

\* "except Exception": the pass raised; back off and go round again, or
\* return None from the last pass.
RateAttemptRaises ==
    /\ InGetRate
    /\ attempt < call.max_retries
    /\ attempts' = Attempted("exception")
    /\ IF attempt < call.max_retries - 1
       THEN /\ slept' = Sleep(attempt, RInt(exponential_backoff(attempt, 1, 60)))
            /\ attempt' = attempt + 1
            /\ UNCHANGED <<pc, call, result>>
       ELSE /\ RateReturned(Null)
            /\ UNCHANGED <<slept, attempt>>
    /\ UNCHANGED <<error, prices, confidence_level, risk_free_rate, max_retries, cache>>
    /\ UNCHANGED fetchVars
    /\ UNCHANGED metricVars

\* "if response.status_code == 429"
RateLimited ==
    /\ InGetRate
    /\ attempt < call.max_retries
    /\ attempts' = Attempted("429")
    /\ IF attempt < call.max_retries - 1
       THEN /\ slept' = Sleep(attempt, RInt(exponential_backoff(attempt, 2, 60)))
            /\ attempt' = attempt + 1
            /\ UNCHANGED <<pc, call, result>>
       ELSE /\ RateReturned(Null)
            /\ UNCHANGED <<slept, attempt>>
    /\ UNCHANGED <<error, prices, confidence_level, risk_free_rate, max_retries, cache>>
    /\ UNCHANGED fetchVars
    /\ UNCHANGED metricVars

\* The response was read: rate = rates.get(to_currency).  A truthy rate is
\* cached and returned; otherwise None is returned.
RateResponds(rate) ==
    /\ InGetRate
    /\ attempt < call.max_retries
    /\ attempts' = Append(attempts, [attempt |-> attempt, outcome |-> "result", rate |-> rate])
    /\ IF Truthy(rate)
       THEN /\ cache' = Cached(CacheKey(call.from_currency, call.to_currency), Value(rate))
            /\ RateReturned(rate)
       ELSE /\ cache' = cache
            /\ RateReturned(Null)
    /\ UNCHANGED <<error, prices, confidence_level, risk_free_rate, max_retries, attempt, slept>>
    /\ UNCHANGED fetchVars
    /\ UNCHANGED metricVars

\* The caller has the value and is free to call the converter again.
ConverterDone ==
    /\ pc = "returned"
    /\ call.fn \in {"get_rate", "convert"}
    /\ pc' = "client"
    /\ UNCHANGED <<call, result, error, prices, confidence_level, risk_free_rate>>
    /\ UNCHANGED clientVars
    /\ UNCHANGED fetchVars
    /\ UNCHANGED metricVars

\* converter = CurrencyConverter()
InitConverter ==
    /\ pc = "client"
    /\ FetchIdle
    /\ prices = EmptyFrame
    /\ return_type = "simple"
    /\ returns = EmptyFrame
    /\ max_drawdown = NoSeries
    /\ confidence_level = 95
    /\ var = NoSeries
    /\ cvar = NoSeries
    /\ market_returns = NoMarket
    /\ report = NoReport
    /\ risk_free_rate = DefaultRate
    /\ call = NoCall
    /\ result = NoResult
    /\ ClientIdle

NextConverter ==
    \/ \E from_currency, to_currency \in Currencies, retries \in 0..MaxRateRetries :
          GetRate(from_currency, to_currency, retries)
    \/ \E price \in ConvertPrices, from_currency, to_currency \in Currencies :
          Convert(price, from_currency, to_currency)
    \/ RateLoopEnds
    \/ RateAttemptRaises
    \/ RateLimited
    \/ \E rate \in ResponseRates : RateResponds(rate)
    \/ ConverterDone

SpecConverter == InitConverter /\ [][NextConverter]_vars

-----------------------------------------------------------------------------
(* Properties of fetch_historical_data *)

\* fetch_historical_data has built its matrix and is at its return.
FetchCompleted == pc = "fetched"

\* The call made for symbol number c at date number r.
CallAt(c, r) ==
    CHOOSE k \in DOMAIN calls :
        calls[k].symbol = symbols[c] /\ calls[k].date = dates[r]

\* What that fetch gave: its price, null when it returned none or raised.
FetchGave(c, r) ==
    IF calls[CallAt(c, r)].outcome = "raised" THEN Null ELSE calls[CallAt(c, r)].price

HasObservation(c) == \E r \in DOMAIN dates : ~IsNull(FetchGave(c, r))

\* C1: once fetch_historical_data has returned, the column of a symbol with
\* at least one non-null fetched price has no null cell, and the column of
\* a symbol whose every fetch failed or returned null is null throughout.
C1_NoMissingCells ==
    FetchCompleted =>
        \A c \in DOMAIN symbols :
            /\ Len(prices.data[c]) = Len(dates)
            /\ HasObservation(c) =>
                   \A r \in DOMAIN dates : ~IsNull(prices.data[c][r])
            /\ ~HasObservation(c) =>
                   \A r \in DOMAIN dates : IsNull(prices.data[c][r])

\* A returned matrix with a column that had gaps before and after its only
\* observation, beside a column that has no observation.
C1_Witness ==
    /\ FetchCompleted
    /\ Len(symbols) = 2
    /\ Len(dates) = 3
    /\ IsNull(FetchGave(1, 1)) /\ ~IsNull(FetchGave(1, 2)) /\ IsNull(FetchGave(1, 3))
    /\ ~HasObservation(2)

\* The rows before r, and after r, at which the fetch for column c gave a price.
EarlierObservations(c, r) == {j \in 1..(r - 1) : ~IsNull(FetchGave(c, j))}

LaterObservations(c, r) == {j \in (r + 1)..Len(dates) : ~IsNull(FetchGave(c, j))}

Greatest(S) == CHOOSE x \in S : \A y \in S : y <= x

Least(S) == CHOOSE x \in S : \A y \in S : x <= y

\* C2: in the returned matrix a cell whose fetch gave a price holds that
\* price; a cell whose fetch gave null holds the most recent earlier fetched
\* price when there is one (forward fill wins), and otherwise the first
\* later fetched price.
C2_FillValues ==
    FetchCompleted =>
        \A c \in DOMAIN symbols : \A r \in DOMAIN dates :
            LET cell == prices.data[c][r]
            IN  IF ~IsNull(FetchGave(c, r)) THEN cell = FetchGave(c, r)
                ELSE IF EarlierObservations(c, r) # {}
                     THEN cell = FetchGave(c, Greatest(EarlierObservations(c, r)))
                ELSE IF LaterObservations(c, r) # {}
                     THEN cell = FetchGave(c, Least(LaterObservations(c, r)))
                ELSE TRUE

\* A returned matrix with a gap between two different prices and a column
\* that starts with two gaps.
C2_Witness ==
    /\ FetchCompleted
    /\ Len(symbols) = 2
    /\ Len(dates) = 3
    /\ FetchGave(1, 1) = Some(100) /\ IsNull(FetchGave(1, 2)) /\ FetchGave(1, 3) = Some(50)
    /\ IsNull(FetchGave(2, 1)) /\ IsNull(FetchGave(2, 2)) /\ FetchGave(2, 3) = Some(50)
    /\ prices.data[1][2] = Some(100)
    /\ prices.data[2][1] = Some(50)

\* The cell recorded for call number k: in the finished columns or in the
\* column being fetched.
RecordedCell(k) ==
    LET c == ((k - 1) \div Len(dates)) + 1
        r == ((k - 1) % Len(dates)) + 1
    IN  IF c <= Len(price_data) THEN price_data[c][r] ELSE symbol_prices[r]

SomeFetchRaised == \E k \in DOMAIN calls : calls[k].outcome = "raised"

\* C3: an exception of fetcher.fetch_price is recorded as null for its own
\* cell only and does not reach the caller; the loop goes on, so that every
\* (symbol, date) point is fetched and the matrix is returned.
C3_FetchFailureAbsorbed ==
    /\ SomeFetchRaised => (pc # "raised" /\ error = "none")
    /\ pc = "fetching" =>
           \A k \in DOMAIN calls :
               RecordedCell(k) =
                   (IF calls[k].outcome = "raised" THEN Null ELSE calls[k].price)
    /\ pc = "fetching" => ENABLED (FetchPriceRaises \/ StoreSymbol \/ BuildFrame)
    /\ FetchCompleted =>
           /\ Len(calls) = Len(symbols) * Len(dates)
           /\ prices.index = dates
           /\ prices.columns = symbols

\* A returned matrix whose first fetch raised and whose later fetches gave prices.
C3_Witness ==
    /\ FetchCompleted
    /\ Len(symbols) = 2
    /\ Len(dates) = 2
    /\ calls[1].outcome = "raised"
    /\ \A k \in 2..4 : calls[k].outcome = "returned" /\ ~IsNull(calls[k].price)
    /\ prices.data[1] = <<calls[2].price, calls[2].price>>

-----------------------------------------------------------------------------
(* Properties of calculate_returns and generate_risk_report *)

NoNullCell(df) == \A c \in DOMAIN df.data : \A r \in DOMAIN df.data[c] : ~IsNull(df.data[c][r])

\* C4: for a price matrix with at least one row, calculate_returns gives a
\* matrix with one row fewer, dated as the prices without their first date,
\* and without a null cell.
C4_OneRowFewer ==
    (pc = "returns" /\ NRows(prices) >= 1) =>
        /\ NRows(returns) = NRows(prices) - 1
        /\ returns.index = Tail(prices.index)
        /\ \A c \in DOMAIN returns.data : Len(returns.data[c]) = NRows(prices) - 1
        /\ NoNullCell(returns)

Range(seq) == {seq[i] : i \in DOMAIN seq}

\* C5: the report has one row per column of returns; without a market
\* series its columns are exactly the eight basic metrics; Beta, Alpha
\* (Annual) and Information Ratio are columns if and only if a market
\* series was given.
C5_ReportColumns ==
    pc = "report" =>
        /\ report.index = returns.columns
        /\ ~market_returns.present =>
               report.columns =
                   <<"Mean Return (Annual)", "Volatility (Annual)",
                     "Variance (Annual)", "Sharpe Ratio", "Sortino Ratio",
                     "Max Drawdown", "VaR (95%)", "CVaR (95%)">>
        /\ \A name \in {"Beta", "Alpha (Annual)", "Information Ratio"} :
               (name \in Range(report.columns)) <=> market_returns.present
        /\ Cardinality(Range(report.columns)) = Len(report.columns)
        /\ Len(report.columns) = IF market_returns.present THEN 11 ELSE 8

\* A report for two symbols made without a market series.
C5_Witness ==
    /\ pc = "report"
    /\ ~market_returns.present
    /\ report.index = <<"A", "B">>
    /\ NRows(returns) = 2

-----------------------------------------------------------------------------
(* Properties of the date grid and of the fetch order *)

\* fetch_historical_data has built its date grid.
GridBuilt == pc \in {"fetching", "fetched"}

Step == IF interval = "daily" THEN 1 ELSE IF interval = "weekly" THEN 7 ELSE 30

SpanDays == Strptime(end_date) - Strptime(start_date)

GridIsStepped ==
    /\ \A k \in DOMAIN dates : Strptime(dates[k]) = Strptime(start_date) + (k - 1) * Step
    /\ \A k \in DOMAIN dates : dates[k] = Strftime(Strptime(start_date) + (k - 1) * Step)
    /\ \A k \in DOMAIN dates : Strptime(dates[k]) <= Strptime(end_date)
    /\ FetchCompleted => prices.index = dates

\* C6 as claimed: the rows are the dates start + k*step in ascending order,
\* and the start date and the end date are both rows whenever start <= end.
C6_BothEndpointsAreRows ==
    (GridBuilt /\ SpanDays >= 0) =>
        /\ GridIsStepped
        /\ start_date \in Range(dates)
        /\ end_date \in Range(dates)

\* C6, amended: the rows are the dates start + k*step for k = 0 ..
\* (end - start) div step, ascending; the start date is the first row
\* whenever start <= end; the end date is a row exactly when end - start is
\* a multiple of the step, and otherwise the last row is the last grid date
\* before the end date.
C6_SteppedGrid ==
    GridBuilt =>
        /\ GridIsStepped
        /\ SpanDays < 0 => dates = <<>>
        /\ SpanDays >= 0 =>
               /\ Len(dates) = (SpanDays \div Step) + 1
               /\ dates[1] = start_date
               /\ (end_date \in Range(dates)) <=> (SpanDays % Step = 0)
               /\ Strptime(end_date) - Strptime(dates[Len(dates)]) = SpanDays % Step

\* A weekly grid over eight days: two rows, the end date not among them.
C6_Witness ==
    /\ FetchCompleted
    /\ interval = "weekly"
    /\ SpanDays = 8
    /\ prices.index = <<<<2024, 2, 27>>, <<2024, 3, 5>>>>
    /\ end_date = <<2024, 3, 6>>

\* C7: with an unrecognized interval fetch_historical_data raises
\* ValueError, returns no matrix and has called fetcher.fetch_price not once.
C7_InvalidInterval ==
    (pc # "idle" /\ interval \notin {"daily", "weekly", "monthly"}) =>
        /\ pc = "raised"
        /\ error = "ValueError"
        /\ calls = <<>>
        /\ prices = EmptyFrame

\* The call with interval "hourly", two symbols and start <= end has raised.
C7_Witness ==
    /\ pc = "raised"
    /\ error = "ValueError"
    /\ interval = "hourly"
    /\ Len(symbols) = 2
    /\ SpanDays = 2

\* C8: fetcher.fetch_price is called once per (symbol, date) pair, one call
\* at a time, symbols in list order and for each symbol the dates in
\* ascending order; a failed point is not fetched again.
C8_OneCallPerPoint ==
    GridBuilt =>
        /\ Len(calls) <= Len(symbols) * Len(dates)
        /\ Len(calls) = Len(price_data) * Len(dates) + Len(symbol_prices)
        /\ \A k \in DOMAIN calls :
               /\ calls[k].symbol = symbols[((k - 1) \div Len(dates)) + 1]
               /\ calls[k].date = dates[((k - 1) % Len(dates)) + 1]
        /\ \A j, k \in DOMAIN calls :
               (calls[j].symbol = calls[k].symbol /\ calls[j].date = calls[k].date) => j = k
        /\ FetchCompleted => Len(calls) = Len(symbols) * Len(dates)

\* Six fetches done for two symbols and three dates, two of them failed.
C8_Witness ==
    /\ FetchCompleted
    /\ Len(symbols) = 2
    /\ Len(dates) = 3
    /\ Len(calls) = 6
    /\ calls[2].outcome = "raised"
    /\ calls[4].outcome = "raised"
    /\ calls[5].outcome = "returned"

-----------------------------------------------------------------------------
(* Properties of calculate_max_drawdown *)

\* The column has a (positive) price in every row.
Priced(col) == \A t \in DOMAIN col : ~IsNull(col[t]) /\ Value(col[t]) > 0

\* The greatest price of the column up to and including row t.
RunMax(col, t) ==
    CHOOSE m \in {Value(col[i]) : i \in 1..t} :
        \A i \in 1..t : Value(col[i]) <= m

\* The fractional decline from the running maximum at row t.
Decline(col, t) == RNorm(Value(col[t]) - RunMax(col, t), RunMax(col, t))

NeverBelowRunMax(col) == \A t \in DOMAIN col : Value(col[t]) >= RunMax(col, t)

NonDecreasing(col) ==
    \A t \in DOMAIN col : t > 1 => Value(col[t - 1]) <= Value(col[t])

\* C9: for a price matrix with at least one row and positive prices the
\* maximum drawdown of every symbol is at most 0, is the least decline from
\* the running maximum over the dates, and is 0 exactly when the price never
\* falls below its running maximum, as for a non-decreasing series;
\* [100, 50] gives -1/2 and [100, 110, 121] gives 0.
C9_MaxDrawdown ==
    (pc = "drawdown" /\ NRows(prices) >= 1) =>
        /\ max_drawdown.index = prices.columns
        /\ \A c \in DOMAIN prices.data :
               LET col == prices.data[c]
                   mdd == max_drawdown.data[c]
               IN  Priced(col) =>
                       /\ ~IsNull(mdd)
                       /\ RLe(Value(mdd), RInt(0))
                       /\ \E t \in DOMAIN col : Value(mdd) = Decline(col, t)
                       /\ \A t \in DOMAIN col : RLe(Value(mdd), Decline(col, t))
                       /\ (Value(mdd) = RInt(0)) <=> NeverBelowRunMax(col)
                       /\ NonDecreasing(col) => Value(mdd) = RInt(0)
                       /\ col = <<Some(100), Some(50)>> => Value(mdd) = <<-1, 2>>
                       /\ col = <<Some(100), Some(110), Some(121)>> => Value(mdd) = RInt(0)

\* The drawdowns of a rising series and of one that falls, recovers and
\* falls less deeply.
C9_Witness ==
    /\ pc = "drawdown"
    /\ prices.columns = <<"A", "B">>
    /\ prices.data[1] = <<Some(100), Some(110), Some(121)>>
    /\ prices.data[2] = <<Some(100), Some(50), Some(110)>>
    /\ max_drawdown.data = <<Some(<<0, 1>>), Some(<<-1, 2>>)>>

-----------------------------------------------------------------------------
(* Properties of the tail metrics *)

-----------------------------------------------------------------------------
(* Properties of calculate_conditional_var *)

\* The rows of col whose return is at or below the threshold.
AtOrBelow(col, threshold) ==
    {t \in DOMAIN col : /\ ~IsNull(threshold)
                        /\ ~IsNull(col[t])
                        /\ RLe(Value(col[t]), Value(threshold))}

\* The sum of the returns of col in the rows of the set rows.
RECURSIVE SumOver(_, _)
SumOver(col, rows) ==
    IF rows = {} THEN RInt(0)
    ELSE LET t == CHOOSE x \in rows : TRUE
         IN  RAdd(Value(col[t]), SumOver(col, rows \ {t}))

\* C11: the conditional VaR of a symbol is the mean of exactly the returns
\* at or below the symbol's (1 - c) quantile, the threshold included: the
\* result times the number of such returns is their sum.  When no return
\* is at or below the threshold the result is the threshold itself.
C11_TailMean ==
    pc = "cvar" =>
        \A s \in DOMAIN returns.data :
            LET threshold == var.data[s]
                tail      == AtOrBelow(returns.data[s], threshold)
            IN  IF tail = {} THEN cvar.data[s] = threshold
                ELSE /\ ~IsNull(cvar.data[s])
                     /\ RMul(Value(cvar.data[s]), RInt(Cardinality(tail)))
                            = SumOver(returns.data[s], tail)

\* The tail holds a return equal to the threshold and one below it, and a
\* return above the threshold is left out.
C11_Witness ==
    /\ pc = "cvar"
    /\ Len(returns.data) = 1
    /\ ~IsNull(var.data[1])
    /\ \E t, u, w \in DOMAIN returns.data[1] :
          /\ Value(returns.data[1][t]) = Value(var.data[1])
          /\ Value(returns.data[1][u]) # Value(var.data[1])
          /\ RLe(Value(returns.data[1][u]), Value(var.data[1]))
          /\ ~RLe(Value(returns.data[1][w]), Value(var.data[1]))
    /\ Value(cvar.data[1]) # Value(var.data[1])

\* No return is at or below the threshold, and the result is the threshold.
C11_EmptyTail ==
    /\ pc = "cvar"
    /\ Len(returns.data) = 1
    /\ AtOrBelow(returns.data[1], var.data[1]) = {}
    /\ cvar.data[1] = var.data[1]

-----------------------------------------------------------------------------
(* Properties of the per-symbol computations *)

\* The column of df at position c, as a series over the rows of df.
ColumnSeries(df, c) == [index |-> df.index, data |-> df.data[c]]

\* The matrix p with the column at position c replaced.
WithColumn(p, c, col) == [p EXCEPT !.data[c] = col]

\* C12: the returns of a symbol depend on the symbol's own price column
\* only: a price matrix over the same dates that agrees on the first
\* column gives the same returns for the first symbol, whatever the second
\* column holds, an entirely null column included.
C12_OwnColumnOnly ==
    (pc = "returns" /\ Len(prices.columns) = 2) =>
        \A other \in AlignedColumns(NRows(prices)) :
            ColumnSeries(ReturnsOf(WithColumn(prices, 2, other), return_type), 1)
                = ColumnSeries(returns, 1)

-----------------------------------------------------------------------------
(* Properties of the analysis of a symbol without observations *)

\* The price column at position c has rows and is null in all of them.
EntirelyNull(p, c) ==
    /\ NRows(p) >= 1
    /\ \A t \in DOMAIN p.data[c] : IsNull(p.data[c][t])

\* The call names a symbol that is no column, or a method that is not
\* recognized: the arguments the functions raise for.
RaisesForArgument(c) ==
    \/ /\ c.fn = "calculate_pairwise_correlation"
       /\ SymbolsMissing(returns, c.symbol1, c.symbol2)
    \/ /\ c.fn = "calculate_value_at_risk"
       /\ ~ValidMethod(c.method)
    \/ /\ c.fn \in {"calculate_beta", "calculate_alpha"}
       /\ Given(c.symbol)
       /\ ~HasColumn(returns, Value(c.symbol))

\* The rows of the report of the symbols without observations are null in
\* every column.
NullRows ==
    \A c \in DOMAIN prices.columns :
        EntirelyNull(prices, c) =>
            \A k \in DOMAIN report.columns : IsNull(report.data[k][c])

\* C13: with a price column that is entirely null, calculate_returns, the
\* metric functions and generate_risk_report complete without raising
\* (no call raises but for an unrecognized return type or method or an
\* unknown symbol), and the row of that symbol in the report is null in
\* every metric column.
C13_NullSymbolRow ==
    (\E c \in DOMAIN prices.columns : EntirelyNull(prices, c)) =>
        /\ pc = "raised" => ~ValidReturnType(return_type)
        /\ pc \in {"returns", "report"} => error = "none"
        /\ (pc = "called" /\ ~RaisesForArgument(call)) =>
              (error = "none" /\ result # NoResult)
        /\ pc = "report" => NullRows

\* The part of C13 that holds: no metric function and no report raises for
\* the null column, and the report row of the symbol is null throughout.
C13_AfterSimpleReturns ==
    (\E c \in DOMAIN prices.columns : EntirelyNull(prices, c)) =>
        /\ pc \in {"returns", "report"} => error = "none"
        /\ (pc = "called" /\ ~RaisesForArgument(call)) =>
              (error = "none" /\ result # NoResult)
        /\ pc = "report" => NullRows

\* A report with the market columns over a priced symbol and a symbol that
\* has no observation in three rows.
C13_NullRowReported ==
    /\ pc = "report"
    /\ error = "none"
    /\ NRows(prices) = 3
    /\ prices.columns = <<"A", "B">>
    /\ ~EntirelyNull(prices, 1)
    /\ EntirelyNull(prices, 2)
    /\ Len(report.columns) = 11
    /\ report.index = <<"A", "B">>
    /\ \A k \in DOMAIN report.columns : IsNull(report.data[k][2])

-----------------------------------------------------------------------------
(* Properties of the analyzer's arguments and configuration *)

\* C14: no operation modifies the tables passed to it or the configured
\* rate: every step leaves prices, the market series and risk_free_rate as
\* they were, and every step after calculate_returns has made the returns
\* matrix leaves the returns matrix as it was, the clamping of
\* calculate_sortino_ratio included.
C14_InputsUntouched ==
    [][/\ prices' = prices
       /\ market_returns' = market_returns
       /\ risk_free_rate' = risk_free_rate
       /\ pc # "prices" => returns' = returns]_vars

\* calculate_sortino_ratio has returned ratios for returns that hold a
\* positive value, which its clamping sets to zero in its own copy.
C14_Witness ==
    /\ pc = "called"
    /\ call.fn = "calculate_sortino_ratio"
    /\ NRows(returns) = 2
    /\ \E c \in DOMAIN returns.data :
          /\ Value(returns.data[c][1])[1] > 0
          /\ ~IsNull(result.data[c])
    /\ ClampFrame(returns) # returns

\* The rate a call is to use: the configured rate when the argument is
\* None, and the argument, zero included, otherwise.
RateToUse(arg) == IF arg = NoRate THEN risk_free_rate ELSE Value(arg)

\* C15: calculate_sharpe_ratio, calculate_sortino_ratio and calculate_alpha
\* use the configured risk-free rate exactly when the risk_free_rate
\* argument is None; a supplied rate, zero included, is used instead.
C15_RateArgument ==
    (pc = "called" /\ error = "none") =>
        /\ call.fn = "calculate_sharpe_ratio" =>
              result = SharpeRatioOf(returns, RateToUse(call.risk_free_rate), 252)
        /\ call.fn = "calculate_sortino_ratio" =>
              result = SortinoRatioOf(returns, RateToUse(call.risk_free_rate), 252)
        /\ call.fn = "calculate_alpha" =>
              result = AlphaOf(returns, market_returns,
                               RateToUse(call.risk_free_rate), 252, call.symbol)

\* A Sharpe ratio computed with the rate 0 handed to the call, which is not
\* the ratio at the configured rate.
C15_Witness ==
    /\ pc = "called"
    /\ call.fn = "calculate_sharpe_ratio"
    /\ call.risk_free_rate = Some(RInt(0))
    /\ \E c \in DOMAIN result.data :
          /\ ~IsNull(result.data[c])
          /\ ~IsInfinite(result.data[c])
          /\ Value(result.data[c]).num = Value(AnnualMean(returns.data[c], 252))
    /\ result # SharpeRatioOf(returns, risk_free_rate, 252)

\* An alpha computed with the configured rate, no rate being handed over.
C15_ConfiguredRateUsed ==
    /\ pc = "called"
    /\ call.fn = "calculate_alpha"
    /\ error = "none"
    /\ call.risk_free_rate = NoRate
    /\ risk_free_rate # DefaultRate
    /\ \E c \in DOMAIN result.data : ~IsNull(result.data[c])
    /\ result # AlphaOf(returns, market_returns, DefaultRate, 252, call.symbol)

-----------------------------------------------------------------------------
(* Properties of generate_risk_report's values *)

\* The column of the report called name, over the rows of the report.
Reported(name) ==
    report.data[CHOOSE k \in DOMAIN report.columns : report.columns[k] = name]

HasReported(name) == \E k \in DOMAIN report.columns : report.columns[k] = name

\* C16: every column of the report is what the metric function of that
\* column returns for the same returns, prices and market series with its
\* defaults: 252 trading days, a confidence level of 95%, the historical
\* method and the rate the analyzer was constructed with; the annual mean
\* return is the mean return times 252.
C16_ReportIsMetrics ==
    pc = "report" =>
        /\ report.index = returns.columns
        /\ Reported("Mean Return (Annual)") =
              [c \in DOMAIN returns.data |->
                  CellMul(Mean(returns.data[c]), Some(RInt(252)))]
        /\ Reported("Volatility (Annual)") = VolatilityOf(returns, TRUE, 252).data
        /\ Reported("Variance (Annual)") = VarianceOf(returns, TRUE, 252).data
        /\ Reported("Sharpe Ratio") = SharpeRatioOf(returns, risk_free_rate, 252).data
        /\ Reported("Sortino Ratio") = SortinoRatioOf(returns, risk_free_rate, 252).data
        /\ Reported("Max Drawdown") = MaxDrawdownOf(prices).data
        /\ Reported("VaR (95%)") = ValueAtRiskBy(returns, 95, "historical").data
        /\ Reported("CVaR (95%)") = ConditionalVarOf(returns, 95).data
        /\ market_returns.present =>
              /\ Reported("Beta") = BetaOf(returns, market_returns, NoSymbol).data
              /\ Reported("Alpha (Annual)") =
                    AlphaOf(returns, market_returns, risk_free_rate, 252, NoSymbol).data
              /\ Reported("Information Ratio") =
                    InformationRatioOf(returns, market_returns, 252).data

\* A report with the market columns from an analyzer constructed with a
\* rate other than the default, whose first row has a finite Sharpe ratio,
\* a beta and an alpha.
C16_Witness ==
    /\ pc = "report"
    /\ risk_free_rate # DefaultRate
    /\ HasReported("Beta")
    /\ ~IsNull(Reported("Sharpe Ratio")[1])
    /\ ~IsInfinite(Reported("Sharpe Ratio")[1])
    /\ ~IsNull(Reported("Beta")[1])
    /\ ~IsNull(Reported("Alpha (Annual)")[1])
    /\ Reported("Sharpe Ratio") # SharpeRatioOf(returns, DefaultRate, 252).data

-----------------------------------------------------------------------------
(* Properties of the symbol arguments *)

\* C17: calculate_beta with a symbol that is no column of returns raises
\* ValueError, for every such symbol, and returns nothing; with a symbol
\* that is a column it returns the value of exactly that symbol; without a
\* symbol it returns a value for every column.
C17_BetaSymbol ==
    (pc = "called" /\ call.fn = "calculate_beta") =>
        IF call.symbol = NoSymbol
        THEN error = "none" /\ result.index = returns.columns
        ELSE IF HasColumn(returns, Value(call.symbol))
        THEN error = "none" /\ result.index = <<Value(call.symbol)>>
        ELSE error = "ValueError" /\ result = NoResult

\* C17 for the symbols that are not the empty string.
C17_NonEmptySymbol ==
    (pc = "called" /\ call.fn = "calculate_beta" /\ call.symbol # Some("")) =>
        IF call.symbol = NoSymbol
        THEN error = "none" /\ result.index = returns.columns
        ELSE IF HasColumn(returns, Value(call.symbol))
        THEN error = "none" /\ result.index = <<Value(call.symbol)>>
        ELSE error = "ValueError" /\ result = NoResult

\* calculate_beta was handed the empty string and returned the betas of
\* both columns.
C17_EmptySymbolReturnsAll ==
    /\ pc = "called"
    /\ call.fn = "calculate_beta"
    /\ call.symbol = Some("")
    /\ error = "none"
    /\ result.index = <<"A", "B">>

\* C18: calculate_pairwise_correlation raises ValueError, and computes no
\* correlation, whenever symbol1 or symbol2 is no column of returns, also
\* when only one of them is absent; when both are columns it returns a
\* correlation.
C18_PairSymbols ==
    (pc = "called" /\ call.fn = "calculate_pairwise_correlation") =>
        IF HasColumn(returns, call.symbol1) /\ HasColumn(returns, call.symbol2)
        THEN error = "none" /\ result # NoResult
        ELSE error = "ValueError" /\ result = NoResult

\* The call raised for the pair of a column and a label that is no column.
C18_Witness ==
    /\ pc = "called"
    /\ call.fn = "calculate_pairwise_correlation"
    /\ HasColumn(returns, call.symbol1)
    /\ ~HasColumn(returns, call.symbol2)
    /\ NRows(returns) >= 1
    /\ error = "ValueError"

\* The correlation of two columns that both vary is returned.
C18_BothPresent ==
    /\ pc = "called"
    /\ call.fn = "calculate_pairwise_correlation"
    /\ call.symbol1 = "A"
    /\ call.symbol2 = "B"
    /\ error = "none"
    /\ ~IsNull(result.value)

-----------------------------------------------------------------------------
(* Properties of the return_type and method arguments *)

\* C19: calculate_returns with a return_type other than simple and log, and
\* calculate_value_at_risk with a method other than historical and
\* parametric, raise ValueError and return nothing; with a recognized
\* value neither raises ValueError.
C19_UnknownTypeOrMethod ==
    /\ pc # "prices" =>
          IF return_type \in {"simple", "log"}
          THEN /\ pc = "returns" => error = "none"
               /\ pc = "raised" => error # "ValueError"
          ELSE /\ pc = "raised"
               /\ error = "ValueError"
               /\ returns = EmptyFrame
    /\ (pc = "called" /\ call.fn = "calculate_value_at_risk") =>
          IF call.method \in {"historical", "parametric"}
          THEN error = "none" /\ result.index = returns.columns
          ELSE error = "ValueError" /\ result = NoResult

\* calculate_value_at_risk raised for the method montecarlo on returns of
\* two rows.
C19_Witness ==
    /\ pc = "called"
    /\ call.fn = "calculate_value_at_risk"
    /\ call.method = "montecarlo"
    /\ NRows(returns) = 2
    /\ error = "ValueError"
    /\ result = NoResult

\* calculate_returns raised for the return type compound.
C19_UnknownReturnType ==
    /\ pc = "raised"
    /\ return_type = "compound"
    /\ NRows(prices) = 3
    /\ error = "ValueError"

-----------------------------------------------------------------------------
(* Properties of the ratios of degenerate returns *)

\* The value is a quotient by the root of a positive number.
IsFinite(cell) ==
    /\ ~IsNull(cell)
    /\ Value(cell).root[1] > 0

C20_NoDownside ==
    /\ pc = "called"
    /\ call.fn = "calculate_sortino_ratio"
    /\ error = "none"
    /\ NRows(returns) = 2
    /\ Variance(returns.data[1]) # Some(RInt(0))
    /\ Variance(Clamp(returns.data[1])) = Some(RInt(0))
    /\ IsInfinite(result.data[1])

\* A ratio that is NaN: a zero mean, the rate 0 and no deviation.
C20_ZeroOverZero ==
    /\ pc = "called"
    /\ call.fn = "calculate_sharpe_ratio"
    /\ call.risk_free_rate = Some(RInt(0))
    /\ NRows(returns) = 2
    /\ Variance(returns.data[1]) = Some(RInt(0))
    /\ IsNull(result.data[1])

-----------------------------------------------------------------------------
(* Properties of calculate_alpha's symbol argument *)

\* The entry of a series at a label.
EntryAt(series, label) ==
    series.data[CHOOSE i \in DOMAIN series.index : series.index[i] = label]

\* The alpha of every column for the inputs of the call in hand.
AlphaOfAll ==
    AlphaOf(returns, market_returns, RateToUse(call.risk_free_rate), 252, NoSymbol)

\* C21: calculate_alpha with symbol = s, s a column of returns, returns a
\* series of exactly one entry, labelled s, whose value is the s entry of
\* calculate_alpha without a symbol on the same inputs.
C21_AlphaSymbolOnly ==
    (/\ pc = "called"
     /\ call.fn = "calculate_alpha"
     /\ call.symbol # NoSymbol
     /\ HasColumn(returns, Value(call.symbol))) =>
        /\ error = "none"
        /\ result.index = <<Value(call.symbol)>>
        /\ result.data[1] = EntryAt(AlphaOfAll, Value(call.symbol))

\* What holds of the call: the entry of s is the one computed without a
\* symbol, and every other column has an entry too, which is NaN.
C21_OtherColumnsNaN ==
    (/\ pc = "called"
     /\ call.fn = "calculate_alpha"
     /\ call.symbol # NoSymbol
     /\ HasColumn(returns, Value(call.symbol))) =>
        /\ error = "none"
        /\ result.index = returns.columns
        /\ \A i \in DOMAIN result.index :
              IF result.index[i] = Value(call.symbol)
              THEN result.data[i] = AlphaOfAll.data[i]
              ELSE IsNull(result.data[i])

\* calculate_alpha was asked for A alone over the columns A and B and
\* returned two entries: a number for A and NaN for B.
C21_TwoEntriesForOneSymbol ==
    /\ pc = "called"
    /\ call.fn = "calculate_alpha"
    /\ call.symbol = Some("A")
    /\ error = "none"
    /\ result.index = <<"A", "B">>
    /\ ~IsNull(result.data[1])
    /\ IsNull(result.data[2])

-----------------------------------------------------------------------------
(* Properties of the fetchers' retry loops *)

\* The attempts of the fetchers' loops are taken one at a time as long as
\* the call runs.
FairSpecFetchers == SpecFetchers /\ WF_vars(NextFetchers)

FetchPriceReturned == pc = "returned" /\ call.fn = "fetch_price"

\* The keys of the dict fetch_price documents.
IsPriceDict(value) == DOMAIN value = {"price", "date", "currency"}

EveryAttemptFailed ==
    \A i \in DOMAIN attempts : attempts[i].outcome \in {"exception", "429"}

\* C22: fetch_price of either fetcher, whatever max_retries is, makes no
\* attempt beyond the first max_retries, raises nothing to its caller and
\* returns a dict with the keys price, date and currency, with a null price
\* when every attempt failed.
C22_AlwaysADict ==
    /\ (call.fn = "fetch_price" /\ pc \in {"retry", "returned"}) =>
          /\ \A i \in DOMAIN attempts : i <= max_retries
          /\ error = "none"
    /\ FetchPriceReturned =>
          /\ IsPriceDict(result)
          /\ EveryAttemptFailed => IsNull(result.price)

\* C22 for the fetchers constructed with max_retries >= 1.
C22_WithRetries ==
    max_retries >= 1 => C22_AlwaysADict

\* C22, termination: every call of fetch_price returns.
C22_Terminates ==
    (pc = "retry" /\ call.fn = "fetch_price") ~> FetchPriceReturned

\* A fetcher constructed with max_retries = 0 made no attempt and fetch_price
\* returned None, which is no dict.
C22_NoneReturned ==
    /\ FetchPriceReturned
    /\ max_retries = 0
    /\ attempts = <<>>
    /\ result = ReturnedNone

\* Three attempts of three failed, by 429 and by exception, and the dict
\* with the null price came back.
C22_AllFailed ==
    /\ FetchPriceReturned
    /\ max_retries = 3
    /\ Len(attempts) = 3
    /\ EveryAttemptFailed
    /\ \E i, j \in DOMAIN attempts :
          attempts[i].outcome = "429" /\ attempts[j].outcome = "exception"
    /\ result = PriceDict(Null, NoDate, "USD")

\* The attempt numbered k failed.
Failed(k) == attempts[k + 1].outcome \in {"exception", "429"}

\* The base delay of the wait after the failed attempt numbered k.
BaseAfter(k) == IF attempts[k + 1].outcome = "429" THEN 2 ELSE 1

\* min(base * 2^k, 60), in seconds.
WaitAfter(k) ==
    LET seconds == BaseAfter(k) * 2 ^ k
    IN  RInt(IF seconds > 60 THEN 60 ELSE seconds)

\* The waits made after the attempt numbered k.
WaitsAfter(k) == {w \in DOMAIN slept : slept[w].after = k}

\* C23: in fetch_price the attempts are numbered 0, 1, 2, ... without a
\* gap; the attempt that produced a result is the last one; after a failed
\* attempt k that another attempt follows there is exactly one wait, of
\* min(base * 2^k, 60) seconds with base 1 after an exception and 2 after a
\* 429; after the final attempt, failed as it may be, there is no backoff
\* wait.
C23_Backoff ==
    (call.fn = "fetch_price" /\ pc \in {"retry", "returned"}) =>
        /\ \A i \in DOMAIN attempts : attempts[i].attempt = i - 1
        /\ pc = "retry" => attempt = Len(attempts)
        /\ \A i \in DOMAIN attempts :
              attempts[i].outcome = "result" => (i = Len(attempts) /\ pc = "returned")
        /\ \A w \in DOMAIN slept : slept[w].after + 1 \in DOMAIN attempts
        /\ \A i \in DOMAIN attempts :
              LET k == i - 1
              IN  Failed(k) =>
                     IF i < Len(attempts) \/ (pc = "retry" /\ attempt < max_retries)
                     THEN /\ Cardinality(WaitsAfter(k)) = 1
                          /\ \A w \in WaitsAfter(k) : slept[w].delay = WaitAfter(k)
                     ELSE /\ WaitsAfter(k) = {}
                          /\ pc = "returned"

\* Eight attempts of eight failed.  The wait after attempt 1, a 429, was 4
\* seconds; the wait after attempt 2, an exception, was 4 seconds; the wait
\* after attempt 6 was capped at 60 seconds; after attempt 7, the last, there
\* was none.
C23_Witness ==
    /\ FetchPriceReturned
    /\ Len(attempts) = 8
    /\ EveryAttemptFailed
    /\ attempts[2].outcome = "429"
    /\ attempts[3].outcome = "exception"
    /\ attempts[7].outcome = "exception"
    /\ \E w \in DOMAIN slept : slept[w] = [after |-> 1, delay |-> RInt(4)]
    /\ \E w \in DOMAIN slept : slept[w] = [after |-> 2, delay |-> RInt(4)]
    /\ \E w \in DOMAIN slept : slept[w] = [after |-> 6, delay |-> RInt(60)]
    /\ WaitsAfter(7) = {}
    /\ Len(slept) = 7

-----------------------------------------------------------------------------
(* Properties of CurrencyConverter *)

\* The cache key of the pair of the call in hand.
CallKey(c) == CacheKey(c.from_currency, c.to_currency)

\* A step in which the converter is called.
ConverterCalled == pc = "client" /\ pc' # "client"

\* C24: an entry enters the cache only in the step of get_rate that read a
\* response with a rate for the target currency that is not zero, under the
\* key of the pair asked for and with that rate; an entry, once there, is
\* never removed or changed; get_rate for a cached pair returns the cached
\* rate without making a request; a lookup that returns None leaves the
\* cache as it was; and get_rate for two equal currencies returns 1.0 with
\* no request made and the cache as it was.
C24_Cache ==
    [][/\ \A k \in DOMAIN cache : k \in DOMAIN cache' /\ cache'[k] = cache[k]
       /\ \A k \in DOMAIN cache' \ DOMAIN cache :
             /\ InGetRate
             /\ k = CallKey(call)
             /\ Len(attempts') = Len(attempts) + 1
             /\ LET last == attempts'[Len(attempts')]
                IN  /\ last.outcome = "result"
                    /\ ~IsNull(last.rate)
                    /\ Value(last.rate) # RInt(0)
                    /\ cache'[k] = Value(last.rate)
       /\ (ConverterCalled /\ call'.fn = "get_rate") =>
             IF call'.from_currency = call'.to_currency
             THEN /\ pc' = "returned"
                  /\ result' = [value |-> Some(RInt(1))]
                  /\ attempts' = <<>>
                  /\ cache' = cache
             ELSE CallKey(call') \in DOMAIN cache =>
                     /\ pc' = "returned"
                     /\ result' = [value |-> Some(cache[CallKey(call')])]
                     /\ attempts' = <<>>
       /\ (InGetRate /\ pc' = "returned" /\ call.fn = "get_rate" /\ IsNull(result'.value)) =>
             cache' = cache
      ]_vars

\* get_rate returned the cached rate of TWD to USD without a request; the
\* cache holds that entry alone.
C24_Witness ==
    /\ pc = "returned"
    /\ call.fn = "get_rate"
    /\ call.from_currency = "TWD"
    /\ call.to_currency = "USD"
    /\ attempts = <<>>
    /\ DOMAIN cache = {"TWD_USD"}
    /\ result = [value |-> Some(cache["TWD_USD"])]

ConvertReturned == pc = "returned" /\ call.fn = "convert"

\* C25: convert returns price * rate when get_rate obtained a rate, the
\* price as it was when the price is null or the two currencies are equal,
\* and None when no rate could be obtained.
C25_Convert ==
    ConvertReturned =>
        IF IsNull(call.price) \/ call.from_currency = call.to_currency
        THEN result.value = call.price
        ELSE IF Truthy(call.exchange_rate)
        THEN result.value = Some(RMul(Value(call.price), Value(call.exchange_rate)))
        ELSE IsNull(result.value)

\* What convert does: without a rate it returns the price it was handed.
C25_PriceWhenNoRate ==
    ConvertReturned =>
        IF IsNull(call.price) \/ call.from_currency = call.to_currency
        THEN result.value = call.price
        ELSE IF Truthy(call.exchange_rate)
        THEN result.value = Some(RMul(Value(call.price), Value(call.exchange_rate)))
        ELSE result.value = call.price

\* Three lookups of TWD to USD failed and convert returned the 100 TWD it
\* was handed as the price in USD.
C25_UnconvertedPrice ==
    /\ ConvertReturned
    /\ call.price = Some(RInt(100))
    /\ call.from_currency = "TWD"
    /\ call.to_currency = "USD"
    /\ Len(attempts) = 3
    /\ EveryAttemptFailed
    /\ IsNull(call.exchange_rate)
    /\ result.value = Some(RInt(100))

\* 100 TWD at a rate of 1/32 came back as 25/8 USD.
C25_ConvertedPrice ==
    /\ ConvertReturned
    /\ call.price = Some(RInt(100))
    /\ call.exchange_rate = Some(RNorm(1, 32))
    /\ result.value = Some(RNorm(25, 8))

-----------------------------------------------------------------------------
(* Properties of step 6 of main *)

\* No call for SPY returned a price: each raised or returned a null one.
NoMarketPrice == \A k \in DOMAIN calls : IsNull(calls[k].price)

\* C26: when no price of SPY could be fetched, the report main generates
\* and saves has none of the columns Beta, Alpha (Annual) and Information
\* Ratio.
C26_NoMarketColumns ==
    (pc \in {"report", "saved"} /\ NoMarketPrice) =>
        /\ \A name \in Range(MarketColumns) : ~HasReported(name)
        /\ Len(report.columns) = 8

\* What main does then: the report is generated and saved with the three
\* market columns, and every cell of them is NaN.
C26_MarketColumnsNaN ==
    (pc \in {"report", "saved"} /\ NoMarketPrice) =>
        /\ market_returns.present
        /\ market_returns.data = <<>>
        /\ Len(report.columns) = 11
        /\ \A name \in Range(MarketColumns) :
              /\ HasReported(name)
              /\ \A i \in DOMAIN report.index : IsNull(Reported(name)[i])

\* Every one of three calls for SPY raised, and the report of two symbols
\* was saved with a Beta column.
C26_SavedWithBeta ==
    /\ pc = "saved"
    /\ Len(calls) = 3
    /\ \A k \in DOMAIN calls : calls[k].outcome = "raised"
    /\ report.index = <<"A", "B">>
    /\ HasReported("Beta")

-----------------------------------------------------------------------------
(* Properties of the date loop *)

\* The locals of fetch_historical_data hold the arguments of a call.
InFetchCall == pc \in {"grid", "fetching", "fetched", "raised"}

\* The dates generated so far are strictly increasing and none is later
\* than the end date.
GridAscending ==
    /\ \A k \in 1..(Len(dates) - 1) : Strptime(dates[k]) < Strptime(dates[k + 1])
    /\ \A k \in DOMAIN dates : Strptime(dates[k]) <= Strptime(end_date)

StartAfterEnd == Strptime(start_date) > Strptime(end_date)

\* With start after end: no date, no call of fetch_price, and the matrix
\* returned has the symbols as columns and no row.
EmptyGridResult ==
    /\ pc \in {"fetching", "fetched"} => (dates = <<>> /\ calls = <<>>)
    /\ pc = "fetched" =>
          /\ prices = DataFrame([c \in DOMAIN symbols |-> <<>>], <<>>, symbols)
          /\ error = "none"

\* The step after the last date of the grid is a datetime that exists.
StepInRange ==
    \/ StartAfterEnd
    \/ Strptime(start_date)
          + ((Strptime(end_date) - Strptime(start_date)) \div Delta(interval) + 1)
              * Delta(interval) <= MaxDatetime

\* C27: for every start date, end date and recognized interval the date
\* loop terminates: the call leaves the loop, going on to fetch when the
\* step after the last grid date is a datetime that exists and raising
\* OverflowError at that step otherwise (a grid reaching to within one step
\* of 9999-12-31). The dates generated are strictly increasing and none is
\* later than the end date. With the start date after the end date there is
\* no date, fetch_price is not called and the empty matrix is returned
\* without an error.
C27_GridLoop ==
    /\ [](InFetchCall =>
            /\ GridAscending
            /\ pc = "raised" =>
                  \/ ~ValidInterval(interval)
                  \/ (error = "OverflowError" /\ ~StepInRange /\ calls = <<>>)
            /\ StartAfterEnd => EmptyGridResult)
    /\ (pc = "grid" /\ StepInRange) ~> (pc = "fetching")
    /\ (pc = "grid" /\ ~StepInRange) ~> (pc = "raised")

\* The weekly loop from 2024-02-27 to 2024-03-12 has ended with its three
\* dates and the call goes on to fetch.
C27_Witness ==
    /\ pc = "fetching"
    /\ interval = "weekly"
    /\ start_date = <<2024, 2, 27>>
    /\ end_date = <<2024, 3, 12>>
    /\ dates = <<<<2024, 2, 27>>, <<2024, 3, 5>>, <<2024, 3, 12>>>>
    /\ ~InGridLoop
    /\ calls = <<>>

\* A call for two symbols with the start date after the end date has built
\* its matrix: no date, no call of fetch_price, two columns, no row.
C27_EmptyGrid ==
    /\ pc = "fetched"
    /\ StartAfterEnd
    /\ dates = <<>>
    /\ calls = <<>>
    /\ symbols = <<"A", "B">>
    /\ prices.columns = <<"A", "B">>
    /\ prices.index = <<>>
    /\ error = "none"

\* The daily loop from 9999-12-30 to 9999-12-31 appended both dates and
\* raised OverflowError at the step past datetime.max.
C27_Overflow ==
    /\ pc = "raised"
    /\ error = "OverflowError"
    /\ interval = "daily"
    /\ dates = <<<<9999, 12, 30>>, <<9999, 12, 31>>>>

====
